---- MODULE Spec2Model ----
(***************************************************************************)
(* Derived-state invalidation of the BEACON-Design authoring tool.        *)
(*                                                                         *)
(* The program is a Streamlit script (src/mainapp.py): every user         *)
(* interaction runs the script from the top against the session state     *)
(* `ss`; a handler that calls st.rerun() stops the pass and starts a new   *)
(* one without any interaction.  One action of this module is one         *)
(* interaction cycle: the interaction, the pass it triggers and the        *)
(* passes that st.rerun() adds, up to the pass that runs to its end (or    *)
(* is stopped by an uncaught exception).                                   *)
(*                                                                         *)
(* Values.  A Python string is a sequence of one-token strings, the empty  *)
(* string is <<>>, None (and a popped dictionary key, which every reader   *)
(* of the code obtains as None through dict.get) is the sequence None.     *)
(* A dictionary is a function on the set of its keys.  hashlib.sha1 is     *)
(* modelled as an ideal hash: an injective tagging of the hashed payload.  *)
(*                                                                         *)
(* Streamlit drops the session-state entry of a keyed widget that is not   *)
(* rendered in a pass, so the widget entries of a step (the uploaders, the *)
(* per-objective text and level widgets, the question counts, the export   *)
(* check boxes) exist only while that step is shown and are seeded again   *)
(* by the code when the step is entered.                                   *)
(***************************************************************************)
EXTENDS Integers, Sequences, FiniteSets, TLC

VARIABLES ss, uuid_next, ev

vars == <<ss, uuid_next, ev>>

(***************************************************************************)
(* Bounds of the exploration.                                              *)
(***************************************************************************)
MaxLOs == 2          \* objectives present at the same time
MaxUuid == 2         \* objectives ever created in one behaviour
MaxFiles == 1        \* files held by a file uploader
MaxNQ == 1           \* largest question count the user asks for
MaxEdits == 1        \* edited fields of one question

(***************************************************************************)
(* Python values.                                                          *)
(***************************************************************************)
None == <<"<None>">>
EmptyStr == <<>>
EmptyMap == <<>>
NoId == 0

Truthy(x) == x # None /\ x # <<>>

PyStr(x) == IF x = None THEN <<"N", "o", "n", "e">> ELSE x

Get(m, k, d) == IF k \in DOMAIN m THEN m[k] ELSE d

Pop(m, k) == [x \in (DOMAIN m) \ {k} |-> m[x]]

Put(m, k, v) == [x \in (DOMAIN m) \cup {k} |-> IF x = k THEN v ELSE m[x]]

IsSpace(c) == c \in {" ", "\t", "\n"}

RECURSIVE LStrip(_)
LStrip(s) == IF s # <<>> /\ IsSpace(Head(s)) THEN LStrip(Tail(s)) ELSE s

RECURSIVE RStrip(_)
RStrip(s) ==
    IF s # <<>> /\ IsSpace(s[Len(s)]) THEN RStrip(SubSeq(s, 1, Len(s) - 1)) ELSE s

\* str.strip()
Strip(s) == RStrip(LStrip(s))

(***************************************************************************)
(* Program constants.                                                      *)
(***************************************************************************)
MODULE_TOKEN_LIMIT == 27000

Apply == <<"A", "p", "p", "l", "y">>
Create == <<"C", "r", "e", "a", "t", "e">>

\* the keys of const.BLOOM_LEVEL_DEFS the exploration selects from
BLOOM_LEVELS == {Apply}

ALIGNMENT_LABELS == {<<"consistent">>, <<"ambiguous">>, <<"inconsistent">>}

\* the labels of the alignment results the exploration lets check_alignment return
AlignResults == {<<"ambiguous">>}

INCLUDE_BLOCKS == {"lo", "bloom", "rationale", "answer", "feedback", "content"}

(***************************************************************************)
(* Inputs of the exploration.                                              *)
(***************************************************************************)
\* texts typed into an objective's text area
LoTexts == {<<>>, <<"a">>}

\* values of the Bloom level select box (None: no selection)
LoLevels == BLOOM_LEVELS \cup {None}

\* uploaded files: name, extracted content, token estimate of the wrapped
\* content, and whether the reader of the file type succeeds
FileA == [name |-> "a.txt", content |-> <<"c1">>, tokens |-> 10, readable |-> TRUE]
FileB == [name |-> "b.txt", content |-> <<"c1">>, tokens |-> 10, readable |-> TRUE]
FileBig == [name |-> "big.txt", content |-> <<"c2">>, tokens |-> 27001, readable |-> TRUE]
FileBad == [name |-> "bad.pdf", content |-> <<>>, tokens |-> 0, readable |-> FALSE]
MockFile == [name |-> "mock_uploaded_file.txt", content |-> <<"mock">>, tokens |-> 10,
             readable |-> TRUE]

ModuleUserFiles == {FileA, FileB, FileBad}
CourseUserFiles == {FileA}

SeqsUpTo(S, n) == UNION {[1..k -> S] : k \in 0..n}

(***************************************************************************)
(* Signatures (src/app/session_state_utils.py).                            *)
(***************************************************************************)
Sha1(payload) == <<"sha1">> \o payload

SEP == <<"|", "|">>

sig_module(text) == Sha1(IF Truthy(text) THEN text ELSE EmptyStr)

\* f"{lo_text}||{intended_level}||{module_sig}"
alignment_payload(lo_text, intended_level, module_sig) ==
    PyStr(lo_text) \o SEP \o PyStr(intended_level) \o SEP \o PyStr(module_sig)

sig_alignment(lo_text, intended_level, module_sig) ==
    Sha1(alignment_payload(lo_text, intended_level, module_sig))

\* f"{final_lo_text}||{intended_level}||{module_sig}"
\* mutant: the level is left out of the payload
question_gen_payload_without_level(final_lo_text, intended_level, module_sig) ==
    PyStr(final_lo_text) \o SEP \o SEP \o PyStr(module_sig)

question_gen_payload(final_lo_text, intended_level, module_sig) ==
    PyStr(final_lo_text) \o SEP \o PyStr(intended_level) \o SEP \o PyStr(module_sig)

sig_question_gen(final_lo_text, intended_level, module_sig) ==
    Sha1(question_gen_payload(final_lo_text, intended_level, module_sig))

\* rank of an option id in string order
OptionRank(opt) ==
    CASE opt.id = "A" -> 1 [] opt.id = "B" -> 2 [] opt.id = "C" -> 3
      [] opt.id = "D" -> 4 [] OTHER -> 5

\* sorted(options, key=id): stable insertion sort
RECURSIVE InsertOption(_, _)
InsertOption(sorted, x) ==
    IF sorted = <<>> THEN <<x>>
    ELSE IF OptionRank(x) < OptionRank(Head(sorted)) THEN <<x>> \o sorted
    ELSE <<Head(sorted)>> \o InsertOption(Tail(sorted), x)

RECURSIVE SortOptions(_)
SortOptions(seq) ==
    IF seq = <<>> THEN <<>>
    ELSE InsertOption(SortOptions(SubSeq(seq, 1, Len(seq) - 1)), seq[Len(seq)])

\* sorted(questions_by_lo.keys())
RECURSIVE SortedKeys(_)
SortedKeys(keys) ==
    IF keys = {} THEN <<>>
    ELSE LET k == CHOOSE x \in keys : \A y \in keys : x <= y
         IN <<k>> \o SortedKeys(keys \ {k})

\* "\n".join(parts)
RECURSIVE JoinLines(_)
JoinLines(parts) ==
    IF parts = <<>> THEN <<>>
    ELSE IF Len(parts) = 1 THEN parts[1]
    ELSE parts[1] \o <<"\n">> \o JoinLines(Tail(parts))

\* mutant: the rationales of the options are left out of the signature
RECURSIVE OptionParts_without_rationale(_, _)
OptionParts_without_rationale(prefix, options) ==
    IF options = <<>> THEN <<>>
    ELSE LET option == Head(options)
         IN << prefix \o <<"|opt:", option.id, "|txt:">> \o option.text >>
            \o OptionParts_without_rationale(prefix, Tail(options))

RECURSIVE OptionParts(_, _)
OptionParts(prefix, options) ==
    IF options = <<>> THEN <<>>
    ELSE LET option == Head(options)
         IN << prefix \o <<"|opt:", option.id, "|txt:">> \o option.text,
               prefix \o <<"|opt:", option.id, "|rat:">> \o option.option_rationale >>
            \o OptionParts(prefix, Tail(options))

QuestionParts(lo_id, qi, question) ==
    LET prefix == <<ToString(lo_id), "#", ToString(qi)>>
    IN << prefix \o <<"|stem:">> \o question.stem,
          prefix \o <<"|correct:">> \o <<question.correct_option_id>>,
          prefix \o <<"|contentRef:">> \o question.contentReference,
          prefix \o <<"|cog:">> \o question.cognitive_rationale >>
       \o OptionParts(prefix, SortOptions(question.options))

RECURSIVE QuestionListParts(_, _, _)
QuestionListParts(lo_id, qs, qi) ==
    IF qi >= Len(qs) THEN <<>>
    ELSE QuestionParts(lo_id, qi, qs[qi + 1]) \o QuestionListParts(lo_id, qs, qi + 1)

RECURSIVE AllQuestionParts(_, _)
AllQuestionParts(questions_by_lo, lo_ids) ==
    IF lo_ids = <<>> THEN <<>>
    ELSE QuestionListParts(Head(lo_ids), questions_by_lo[Head(lo_ids)], 0)
         \o AllQuestionParts(questions_by_lo, Tail(lo_ids))

\* the payload that sig_questions hashes
questions_payload(questions_by_lo) ==
    JoinLines(AllQuestionParts(questions_by_lo, SortedKeys(DOMAIN questions_by_lo)))

sig_questions(questions_by_lo) == Sha1(questions_payload(questions_by_lo))

\* A dictionary with its insertion order is the sequence of its (key, value)
\* pairs; keys() gives the keys in that order.
DictKeys(items) == [i \in 1..Len(items) |-> items[i][1]]

DictOf(items) ==
    [k \in {items[i][1] : i \in 1..Len(items)} |->
        items[CHOOSE i \in 1..Len(items) : items[i][1] = k][2]]

\* sorted(keys) of a list of keys: insertion sort
RECURSIVE InsertKey(_, _)
InsertKey(sorted, x) ==
    IF sorted = <<>> THEN <<x>>
    ELSE IF x < Head(sorted) THEN <<x>> \o sorted
    ELSE <<Head(sorted)>> \o InsertKey(Tail(sorted), x)

RECURSIVE SortKeySeq(_)
SortKeySeq(keys) ==
    IF keys = <<>> THEN <<>>
    ELSE InsertKey(SortKeySeq(SubSeq(keys, 1, Len(keys) - 1)), keys[Len(keys)])

\* mutant: the objective ids are taken in insertion order
KeyOrder_unsorted(keys) == keys

\* the order in which sig_questions visits the keys of the dictionary
KeyOrder(keys) == SortKeySeq(keys)

\* the payload that sig_questions hashes for a dictionary given with its
\* insertion order
questions_payload_of_items(items) ==
    JoinLines(AllQuestionParts(DictOf(items), KeyOrder(DictKeys(items))))

(***************************************************************************)
(* Session state helpers (src/app/session_state_utils.py).                 *)
(***************************************************************************)
compute_step_readiness(s) ==
    [s EXCEPT !.is_ready_for_step =
        [k \in 1..5 |->
            CASE k = 3 -> Truthy(s.module_text)
              [] k = 4 -> s.los # <<>> /\ \A i \in 1..Len(s.los) : Truthy(s.los[i].final_text)
              [] k = 5 -> s.questions # EmptyMap
              [] OTHER -> TRUE]]

\* mutant: the alignment result is not removed
clear_alignment_keeps_alignment(lo) ==
    [lo EXCEPT !.final_text = None, !.alignment_sig = None, !.generation_sig = None]

\* mutant: the generation signature is not removed
clear_alignment_keeps_generation_sig(lo) ==
    [lo EXCEPT !.alignment = None, !.final_text = None, !.alignment_sig = None]

\* mutant: the alignment signature is not removed
clear_alignment_keeps_alignment_sig(lo) ==
    [lo EXCEPT !.alignment = None, !.final_text = None, !.generation_sig = None]

clear_alignment(lo) ==
    [lo EXCEPT !.alignment = None, !.final_text = None,
               !.alignment_sig = None, !.generation_sig = None]

\* mutant: with an objective id, no question set is removed
clear_questions_keeps_set(s, lo_id) ==
    [s EXCEPT !.questions = IF lo_id # NoId THEN @ ELSE EmptyMap,
              !.questions_sig = IF lo_id # NoId THEN @ ELSE None,
              !.docx_file = None,
              !.include_opts = EmptyMap,
              !.prev_build_inc_opts = EmptyMap]

\* mutant: the question sets of all objectives are removed whatever lo_id is
clear_questions_always_all(s, lo_id) ==
    [s EXCEPT !.questions = EmptyMap,
              !.questions_sig = IF lo_id # NoId THEN @ ELSE None,
              !.docx_file = None,
              !.include_opts = EmptyMap,
              !.prev_build_inc_opts = EmptyMap]

\* lo_id = NoId stands for the call without an objective id
clear_questions(s, lo_id) ==
    LET s1 == IF lo_id # NoId
              THEN [s EXCEPT !.questions = Pop(@, lo_id)]
              ELSE [s EXCEPT !.questions = EmptyMap, !.questions_sig = None]
    IN [s1 EXCEPT !.docx_file = None,
                  !.include_opts = EmptyMap,
                  !.prev_build_inc_opts = EmptyMap]

\* mutant: the question sets are kept
clear_module_dependent_outputs_keeps_questions(s) ==
    [s EXCEPT !.los = <<>>]

\* mutant: the objectives are kept and lose their derived fields
clear_module_dependent_outputs_keeps_objectives(s) ==
    clear_questions([s EXCEPT !.los = [i \in 1..Len(s.los) |-> clear_alignment(s.los[i])]],
                    NoId)

clear_module_dependent_outputs(s) ==
    clear_questions([s EXCEPT !.los = <<>>], NoId)

\* mutant: the dependents are cleared whenever a module signature is stored
apply_module_content_always_clears(s, text0, tokens, file_names) ==
    LET text == IF Truthy(text0) THEN text0 ELSE EmptyStr
        s1 == IF Truthy(s.module_sig) THEN clear_module_dependent_outputs(s) ELSE s
    IN [s1 EXCEPT !.module_files = file_names,
                  !.module_text = text,
                  !.module_tokens = tokens,
                  !.module_sig = sig_module(text)]

apply_module_content(s, text0, tokens, file_names) ==
    LET text == IF Truthy(text0) THEN text0 ELSE EmptyStr
        new_mod_sig == sig_module(text)
        current_sig == s.module_sig
        s1 == IF Truthy(current_sig) /\ new_mod_sig # current_sig
              THEN clear_module_dependent_outputs(s)
              ELSE s
    IN [s1 EXCEPT !.module_files = file_names,
                  !.module_text = text,
                  !.module_tokens = tokens,
                  !.module_sig = new_mod_sig]

(***************************************************************************)
(* Text extraction (src/app/parse_input_files.py).                         *)
(***************************************************************************)
RECURSIVE CollapseBlanks(_)
CollapseBlanks(s) ==
    IF Len(s) < 2 THEN s
    ELSE IF s[1] \in {" ", "\t"} /\ s[2] \in {" ", "\t"}
         THEN CollapseBlanks(<<" ">> \o SubSeq(s, 3, Len(s)))
    ELSE IF s[1] = "\t" THEN <<" ">> \o CollapseBlanks(Tail(s))
    ELSE <<s[1]>> \o CollapseBlanks(Tail(s))

_normalize(text) ==
    Strip(CollapseBlanks([i \in 1..Len(text) |-> IF text[i] = "\r" THEN "\n" ELSE text[i]]))

FILE_BREAK == <<"\n", "\n", "----- FILE BREAK -----", "\n", "\n">>

FilePart(f) ==
    <<"<", f.name, ">", "\n", "\n">> \o _normalize(f.content)
        \o <<"\n", "\n", "</", f.name, ">">>

RECURSIVE JoinFileParts(_)
JoinFileParts(files) ==
    IF files = <<>> THEN <<>>
    ELSE IF Len(files) = 1 THEN FilePart(files[1])
    ELSE FilePart(files[1]) \o FILE_BREAK \o JoinFileParts(Tail(files))

RECURSIVE SumTokens(_)
SumTokens(files) == IF files = <<>> THEN 0 ELSE Head(files).tokens + SumTokens(Tail(files))

\* raised: _extract_single raised for one of the files.
\* render_step_1 and render_step_2 pass a keyword argument file_keys that the
\* definition at parse_input_files.py:87 does not declare; with that
\* definition every call from mainapp.py would raise TypeError and the module
\* text would always be empty.  The callers document file_keys as a cache key
\* only, so the model takes the result of a call to be the result of the
\* function body on the files.
extract_text_and_tokens(files) ==
    IF files = <<>> THEN [raised |-> FALSE, text |-> EmptyStr, tokens |-> 0]
    ELSE IF \E i \in 1..Len(files) : ~files[i].readable
         THEN [raised |-> TRUE, text |-> EmptyStr, tokens |-> 0]
    ELSE [raised |-> FALSE, text |-> JoinFileParts(files), tokens |-> SumTokens(files)]

FileNames(files) == [i \in 1..Len(files) |-> files[i].name]

(***************************************************************************)
(* One pass of the script without an interaction (src/mainapp.py).         *)
(***************************************************************************)
\* render_step_4, has_questions: some objective has a non-empty question set
has_questions(s) ==
    \E i \in 1..Len(s.los) : Get(s.questions, s.los[i].id, <<>>) # <<>>

\* the entries of widgets that the pass did not render are dropped
DropStaleWidgets(s) ==
    [s EXCEPT !.course_uploader = IF s.current_step = 1 THEN @ ELSE <<>>,
              !.module_uploader = IF s.current_step = 2 THEN @ ELSE <<>>,
              !.nq = IF s.current_step = 4 THEN @ ELSE EmptyMap,
              !.editable_questions = IF s.current_step = 4 /\ has_questions(s)
                                     THEN @ ELSE FALSE,
              !.exp_inc = IF s.current_step = 5 THEN @ ELSE EmptyMap]

\* render_step_1, "Process files"
Step1Files(s) ==
    LET files == IF s.MOCK_MODE THEN <<MockFile>> ELSE s.course_uploader
        r == extract_text_and_tokens(files)
    IN IF files = <<>> THEN s
       ELSE [s EXCEPT !.course_files = FileNames(files),
                      !.course_text = IF r.raised THEN EmptyStr ELSE r.text,
                      !.course_tokens = IF r.raised THEN 0 ELSE r.tokens]

\* render_step_2, "Process files based on actual content"
Step2Files(s) ==
    LET files == IF s.MOCK_MODE THEN <<MockFile>> ELSE s.module_uploader
        r == extract_text_and_tokens(files)
    IN IF files = <<>> THEN s
       ELSE apply_module_content(s, IF r.raised THEN EmptyStr ELSE r.text,
                                 IF r.raised THEN 0 ELSE r.tokens, FileNames(files))

\* the values held by the text and level widgets of the objectives when no
\* widget was changed: the values seeded from, or last written to, the objective
SeededWidgets(s) ==
    [i \in 1..Len(s.los) |-> [text |-> s.los[i].text, level |-> s.los[i].intended_level]]

\* render_step_3, the part of the per-objective loop body before the buttons
Step3Body(s, i, w) ==
    LET lo == s.los[i]
        current_align_sig == sig_alignment(w.text, w.level, s.module_sig)
        prev_align_sig == lo.alignment_sig
        s1 == IF Truthy(prev_align_sig) /\ prev_align_sig # current_align_sig
              THEN [clear_questions([s EXCEPT !.los[i] = clear_alignment(lo)], lo.id)
                        EXCEPT !.los[i].final_text = None]
              ELSE s
    IN [s1 EXCEPT !.los[i].text = w.text, !.los[i].intended_level = w.level]

\* the loop bodies of the objectives at positions from..to, in order
RECURSIVE Step3Loop(_, _, _, _)
Step3Loop(s, from, to, W) ==
    IF from > to THEN s
    ELSE Step3Loop(Step3Body(s, from, W[from]), from + 1, to, W)

\* render_step_4, seeding of the question-count widgets
Step4SeedNQ(s) ==
    [s EXCEPT !.nq =
        [id \in {s.los[i].id : i \in 1..Len(s.los)} |->
            IF id \in DOMAIN s.nq THEN s.nq[id]
            ELSE IF Len(Get(s.questions, id, <<>>)) # 0
                 THEN Len(Get(s.questions, id, <<>>)) ELSE 1]]

\* mutant: a change of the questions leaves the built document in place
Step4DetectChanges_keeps_document(s) ==
    [s EXCEPT !.questions_sig = sig_questions(s.questions)]

\* render_step_4, "After all widgets have applied edits, detect real changes"
Step4DetectChanges(s) ==
    LET new_q_sig == sig_questions(s.questions)
    IN [s EXCEPT !.docx_file = IF Truthy(s.questions_sig) /\ s.questions_sig # new_q_sig
                               THEN EmptyStr ELSE @,
                 !.questions_sig = new_q_sig]

\* render_step_5, seeding of the check boxes and "Persist current selection"
Step5Options(s) ==
    LET seeded == [b \in INCLUDE_BLOCKS |->
                      IF b \in DOMAIN s.exp_inc THEN s.exp_inc[b]
                      ELSE Get(s.include_opts, b, TRUE)]
    IN [s EXCEPT !.exp_inc = seeded, !.include_opts = seeded]

\* the body of the step shown, given the widget values W of the objectives
RenderStep(s, W) ==
    CASE s.current_step = 1 -> Step1Files(s)
      [] s.current_step = 2 -> Step2Files(s)
      [] s.current_step = 3 -> Step3Loop(s, 1, Len(s.los), W)
      [] s.current_step = 4 -> Step4DetectChanges(Step4SeedNQ(s))
      [] OTHER -> Step5Options(s)

\* a pass that runs to its end; on step 2 a change of the module text ends the
\* pass with st.rerun(), and the pass that follows finds the text unchanged
PassW(s, W) ==
    LET a == RenderStep(compute_step_readiness(s), W)
        b == IF s.current_step = 2 /\ a.module_text # s.module_text
             THEN RenderStep(compute_step_readiness(a), W)
             ELSE a
    IN DropStaleWidgets(b)

Pass(s) == PassW(s, SeededWidgets(s))

(***************************************************************************)
(* External collaborators.                                                 *)
(***************************************************************************)
\* const.generate_mock_questions; the payload a successful
\* generate_questions call returns
MockQuestion(i) ==
    [type |-> "MCQ_4",
     stem |-> <<"Mock question ", ToString(i), ": What is 2 + 2?">>,
     options |-> << [id |-> "A", text |-> <<"3">>, option_rationale |-> <<"Off-by-one">>],
                    [id |-> "B", text |-> <<"4">>, option_rationale |-> <<"Correct">>],
                    [id |-> "C", text |-> <<"5">>, option_rationale |-> <<"Common error">>],
                    [id |-> "D", text |-> <<"22">>, option_rationale |-> <<"concat digits">>] >>,
     correct_option_id |-> "B",
     cognitive_rationale |-> <<"Remember-level math fact">>,
     contentReference |-> <<"pre-school math">>]

generate_mock_questions(n) == [i \in 1..n |-> MockQuestion(i)]

\* src/app/export_docx.py: the paragraphs of the built document, in order
RECURSIVE OptionLines(_, _)
OptionLines(options, field) ==
    IF options = <<>> THEN <<>>
    ELSE << <<"   (", Head(options).id, ") ">>
              \o (IF field = "text" THEN Head(options).text
                  ELSE Head(options).option_rationale) >>
         \o OptionLines(Tail(options), field)

QuestionParagraphs(idx, q, include) ==
    << <<ToString(idx), ". ">> \o q.stem >>
    \o OptionLines(q.options, "text")
    \o (IF Get(include, "answer", TRUE)
        THEN << <<"Answer: ", q.correct_option_id>> >> ELSE <<>>)
    \o (IF Get(include, "feedback", TRUE)
        THEN << <<"Feedback:">> >> \o OptionLines(q.options, "rationale") ELSE <<>>)
    \o (IF Get(include, "content", TRUE)
        THEN << <<"Content reference: ">> \o q.contentReference >> ELSE <<>>)
    \o (IF Get(include, "rationale", TRUE)
        THEN << <<"Rationale for Bloom level: ">> \o q.cognitive_rationale >> ELSE <<>>)

RECURSIVE QuestionsParagraphs(_, _, _)
QuestionsParagraphs(qs, idx, include) ==
    IF idx > Len(qs) THEN <<>>
    ELSE QuestionParagraphs(idx, qs[idx], include) \o QuestionsParagraphs(qs, idx + 1, include)

RECURSIVE LoParagraphs(_, _, _)
LoParagraphs(los, questions_by_lo, include) ==
    IF los = <<>> THEN <<>>
    ELSE LET lo == Head(los)
         IN (IF Get(include, "los", TRUE)
             THEN << <<"Learning Objective: ">> \o PyStr(lo.final_text) >> ELSE <<>>)
            \o (IF Get(include, "bloom", TRUE)
                THEN << <<"Bloom level: ">> \o PyStr(lo.intended_level) >> ELSE <<>>)
            \o QuestionsParagraphs(Get(questions_by_lo, lo.id, <<>>), 1, include)
            \o LoParagraphs(Tail(los), questions_by_lo, include)

build_questions_docx(los, questions_by_lo, include) ==
    << <<"Assessment Questions">> >> \o LoParagraphs(los, questions_by_lo, include)

(***************************************************************************)
(* Save and load (src/app/save_load_progress.py).                          *)
(***************************************************************************)
\* A parsed JSON document is an object with its members, or a value of
\* another kind (array, string, number, null).
JsonObject(members) == [kind |-> "object", members |-> members]

JsonOther == [kind |-> "other"]

\* isinstance(x, dict)
IsDict(x) == x.kind = "object"

\* the user holds no saved file
NoFile == [kind |-> "none"]

DOMAIN_STATE_KEYS ==
    {"MOCK_MODE", "__prev_mock_mode__", "OPENAI_MODEL", "course_files", "course_text",
     "course_tokens", "outline_guidance", "generated_outline", "module_files",
     "module_text", "module_tokens", "module_sig", "los", "questions", "questions_sig",
     "include_opts", "prev_build_inc_opts", "docx_file", "n_questions"}

\* _is_jsonable on the value of key k: the strings, numbers, booleans, None,
\* lists and string-keyed dictionaries of the session are serializable, the
\* bytes of a built document are not
_is_jsonable(s, k) == k # "docx_file" \/ ~Truthy(s[k])

\* exportable_state; json.dumps followed by json.load gives back the strings,
\* numbers, booleans, None, lists and string-keyed dictionaries it is given
exportable_state(s) ==
    LET keys == {k \in DOMAIN_STATE_KEYS \cap DOMAIN s : _is_jsonable(s, k)}
    IN JsonObject([k \in {"saved_at", "state", "version"} |->
                      CASE k = "saved_at" -> <<"t">>
                        [] k = "state" -> JsonObject([x \in keys |-> s[x]])
                        [] OTHER -> 1])

\* mutant: the domain keys of the session are not removed first
restore_state_keeps_keys(s, saved_state) ==
    LET data == Get(saved_state.members, "state", JsonObject(EmptyMap))
    IN IF ~IsDict(data) THEN [raised |-> TRUE, s |-> s]
       ELSE LET present == DOMAIN_STATE_KEYS \cap DOMAIN data.members
                set == [k \in (DOMAIN s) \cup present |->
                           IF k \in present THEN data.members[k] ELSE s[k]]
            IN [raised |-> FALSE, s |-> Put(set, "current_step", 1)]

\* mutant: the module signature of the snapshot is not restored
restore_state_without_module_sig(s, saved_state) ==
    LET data == Get(saved_state.members, "state", JsonObject(EmptyMap))
    IN IF ~IsDict(data) THEN [raised |-> TRUE, s |-> s]
       ELSE LET popped == [k \in (DOMAIN s) \ DOMAIN_STATE_KEYS |-> s[k]]
                present == (DOMAIN_STATE_KEYS \cap DOMAIN data.members) \ {"module_sig"}
                set == [k \in (DOMAIN popped) \cup present |->
                           IF k \in present THEN data.members[k] ELSE popped[k]]
            IN [raised |-> FALSE, s |-> Put(set, "current_step", 1)]

\* restore_state: the session it leaves, and whether it raised ValueError
restore_state(s, saved_state) ==
    LET data == Get(saved_state.members, "state", JsonObject(EmptyMap))
    IN IF ~IsDict(data) THEN [raised |-> TRUE, s |-> s]
       ELSE LET popped == [k \in (DOMAIN s) \ DOMAIN_STATE_KEYS |-> s[k]]
                present == DOMAIN_STATE_KEYS \cap DOMAIN data.members
                set == [k \in (DOMAIN popped) \cup present |->
                           IF k \in present THEN data.members[k] ELSE popped[k]]
            IN [raised |-> FALSE, s |-> Put(set, "current_step", 1)]

(***************************************************************************)
(* Validation of the output of the language model (src/app/utils.py).      *)
(* A parsed payload is a dictionary: a function on the keys it holds.      *)
(***************************************************************************)
\* a JSON array with its items
JsonList(items) == [kind |-> "list", items |-> items]

\* isinstance(x, list)
IsList(x) == x.kind = "list"

OPTION_IDS == {"A", "B", "C", "D"}

\* validate_alignment_payload: whether it raises ValueError for obj; it
\* returns obj itself otherwise
validate_alignment_payload(obj) ==
    IF ~("label" \in DOMAIN obj /\ obj.label \in ALIGNMENT_LABELS) THEN [raised |-> TRUE]
    ELSE IF ~("reasons" \in DOMAIN obj /\ IsList(obj.reasons)) THEN [raised |-> TRUE]
    ELSE IF "suggested_lo" \notin DOMAIN obj THEN [raised |-> TRUE]
    ELSE [raised |-> FALSE]

\* sorted(o.get("id") for o in opts) == ["A", "B", "C", "D"]: the list has
\* four items and each of the four ids is the id of exactly one of them
IdsAreAtoD(opts) ==
    /\ Len(opts) = Cardinality(OPTION_IDS)
    /\ \A x \in OPTION_IDS : \E i \in 1..Len(opts) : opts[i].id = x

\* the checks of validate_questions_payload on one question
QuestionRaises(q) ==
    \/ ~("type" \in DOMAIN q /\ q.type = "MCQ_4")
    \/ Len(Get(q, "options", <<>>)) # Cardinality(OPTION_IDS)
    \/ ~IdsAreAtoD(Get(q, "options", <<>>))
    \/ ~("correct_option_id" \in DOMAIN q /\ q.correct_option_id \in OPTION_IDS)

\* mutant: the correct option id is not checked
validate_questions_payload_without_correct_id(obj) ==
    IF ~("questions" \in DOMAIN obj /\ IsList(obj.questions)) THEN [raised |-> TRUE]
    ELSE IF obj.questions.items = <<>> THEN [raised |-> TRUE]
    ELSE [raised |-> \E i \in 1..Len(obj.questions.items) :
                        LET q == obj.questions.items[i]
                        IN \/ ~("type" \in DOMAIN q /\ q.type = "MCQ_4")
                           \/ ~IdsAreAtoD(Get(q, "options", <<>>))]

\* validate_questions_payload: whether it raises ValueError for obj; it
\* returns obj itself otherwise
validate_questions_payload(obj) ==
    IF ~("questions" \in DOMAIN obj /\ IsList(obj.questions)) THEN [raised |-> TRUE]
    ELSE IF obj.questions.items = <<>> THEN [raised |-> TRUE]
    ELSE [raised |-> \E i \in 1..Len(obj.questions.items) :
                        QuestionRaises(obj.questions.items[i])]

(***************************************************************************)
(* State.                                                                  *)
(***************************************************************************)
NewLO(id) ==
    [id |-> id, text |-> EmptyStr, intended_level |-> None, alignment |-> None,
     final_text |-> None, alignment_sig |-> None, generation_sig |-> None]

\* the settings of the "Mock mode" toggle the exploration starts from
MockModes == {FALSE}

\* the session state before the first pass; built, built_questions and
\* saved_file are history fields, not keys of the session: whether the
\* document was ever built, the question sets at the last build, and the
\* parsed content of the file that the user last saved
InitialSession(mock) ==
    [MOCK_MODE |-> mock,
     current_step |-> 1,
     is_ready_for_step |-> [k \in 1..5 |-> k <= 2],
     course_files |-> <<>>, course_text |-> EmptyStr, course_tokens |-> 0,
     module_files |-> <<>>, module_text |-> EmptyStr, module_tokens |-> 0,
     module_sig |-> EmptyStr,
     los |-> <<>>,
     questions |-> EmptyMap,
     questions_sig |-> None,
     include_opts |-> EmptyMap,
     prev_build_inc_opts |-> EmptyMap,
     docx_file |-> None,
     course_uploader |-> <<>>,
     module_uploader |-> <<>>,
     nq |-> EmptyMap,
     editable_questions |-> FALSE,
     exp_inc |-> EmptyMap,
     built |-> FALSE,
     built_questions |-> EmptyMap,
     saved_file |-> NoFile]

\* init_session_state: every key that the session lacks gets its initial value
init_session_state(s) ==
    [k \in (DOMAIN InitialSession(FALSE)) \cup DOMAIN s |->
        IF k \in DOMAIN s THEN s[k] ELSE InitialSession(FALSE)[k]]

\* the last interaction: its kind, the objective it was made on (NoId: none),
\* whether it took its special branch (a cascade for an edit or a module
\* upload, the clearing of stale questions for an accept, an exception for a
\* call of an external collaborator), a count n (the objectives a bulk action
\* handled, the objectives a module upload found) and a count q (the question
\* sets the interaction found: of its objective, or of all objectives for a
\* module upload)
Event(op, id, flag, n, q) ==
    [op |-> op, id |-> id, flag |-> flag, n |-> n, q |-> q, old |-> EmptyStr]

HasQuestions(s, id) == IF id \in DOMAIN s.questions THEN 1 ELSE 0

Init ==
    /\ \E mock \in MockModes : ss = Pass(InitialSession(mock))
    /\ uuid_next = 1
    /\ ev = Event("start", NoId, FALSE, 0, 0)

(***************************************************************************)
(* Interactions.                                                           *)
(***************************************************************************)
\* 1 when the last interactions were the load of a consistent snapshot and
\* then only changes of the step shown, else 0
AfterLoad(e) == IF e.op \in {"load", "navigate"} /\ e.n = 1 THEN 1 ELSE 0

\* render_stepper: a step button (the Back and Next buttons of the steps set
\* current_step and rerun in the same way)
Navigate(k) ==
    /\ k # ss.current_step
    /\ ss.is_ready_for_step[k]
    /\ ss' = Pass([compute_step_readiness(ss) EXCEPT !.current_step = k])
    /\ ev' = Event("navigate", NoId, FALSE, AfterLoad(ev), 0)
    /\ UNCHANGED uuid_next

\* render_step_1: the user changes the files of the source uploader
UploadCourse(files) ==
    /\ ss.current_step = 1
    /\ ~ss.MOCK_MODE
    /\ files # ss.course_uploader
    /\ ss' = Pass([ss EXCEPT !.course_uploader = files])
    /\ ev' = Event("upload_course", NoId, extract_text_and_tokens(files).raised, 0, 0)
    /\ UNCHANGED uuid_next

\* whether processing the files makes apply_module_content find a stored
\* module signature that differs from the signature of the new text
ModuleChanges(s, files) ==
    LET r == extract_text_and_tokens(files)
    IN /\ files # <<>>
       /\ Truthy(s.module_sig)
       /\ s.module_sig # sig_module(IF r.raised THEN EmptyStr ELSE r.text)

\* render_step_2: the user changes the files of the module uploader
UploadModule(files) ==
    /\ ss.current_step = 2
    /\ ~ss.MOCK_MODE
    /\ files # ss.module_uploader
    /\ ss' = Pass([ss EXCEPT !.module_uploader = files])
    /\ ev' = Event("upload_module", NoId, ModuleChanges(ss, files), Len(ss.los),
                   Cardinality(DOMAIN ss.questions))
    /\ UNCHANGED uuid_next

\* render_step_2: "Import source files from Outline step"
ImportFromOutline ==
    /\ ss.current_step = 2
    /\ Truthy(ss.course_text)
    /\ LET r == compute_step_readiness(ss)
       IN ss' = Pass(apply_module_content(r, r.course_text, r.course_tokens, r.course_files))
    /\ ev' = Event("import_module", NoId, FALSE, Len(ss.los), Cardinality(DOMAIN ss.questions))
    /\ UNCHANGED uuid_next

\* the buttons of an objective are enabled as the last pass rendered them
can_check(lo) ==
    /\ ~Truthy(lo.final_text)
    /\ Strip(lo.text) # <<>>
    /\ lo.intended_level # None

\* whether the loop body of the objective at position i clears it, given the
\* values w of its widgets
CascadeFires(s, i, w) ==
    /\ Truthy(s.los[i].alignment_sig)
    /\ s.los[i].alignment_sig # sig_alignment(w.text, w.level, s.module_sig)

\* an edit of a text or level widget: old is the value the widget had before,
\* n is 1 when the edit gives the widget the value it had before the last
\* interaction, which was an edit of the same objective that cleared it
EditEvent(s, e, i, w, old, new) ==
    [Event("edit", s.los[i].id, CascadeFires(s, i, w),
           IF e.op = "edit" /\ e.flag /\ e.id = s.los[i].id /\ e.old = new THEN 1 ELSE 0,
           HasQuestions(s, s.los[i].id)) EXCEPT !.old = old]

\* mutant: the text area of a finalized objective is not disabled
EditText_ignores_final(i, t) ==
    /\ ss.current_step = 3
    /\ i \in 1..Len(ss.los)
    /\ t # ss.los[i].text
    /\ LET W == [SeededWidgets(ss) EXCEPT ![i].text = t]
       IN /\ ss' = PassW(ss, W)
          /\ ev' = EditEvent(ss, ev, i, W[i], ss.los[i].text, t)
    /\ UNCHANGED uuid_next

\* render_step_3: the user changes the text area of an objective
EditText(i, t) ==
    /\ ss.current_step = 3
    /\ i \in 1..Len(ss.los)
    /\ ~Truthy(ss.los[i].final_text)
    /\ t # ss.los[i].text
    /\ LET W == [SeededWidgets(ss) EXCEPT ![i].text = t]
       IN /\ ss' = PassW(ss, W)
          /\ ev' = EditEvent(ss, ev, i, W[i], ss.los[i].text, t)
    /\ UNCHANGED uuid_next

\* render_step_3: the user changes the level select box of an objective
EditLevel(i, l) ==
    /\ ss.current_step = 3
    /\ i \in 1..Len(ss.los)
    /\ ~Truthy(ss.los[i].final_text)
    /\ l # ss.los[i].intended_level
    /\ LET W == [SeededWidgets(ss) EXCEPT ![i].level = l]
       IN /\ ss' = PassW(ss, W)
          /\ ev' = EditEvent(ss, ev, i, W[i], ss.los[i].intended_level, l)
    /\ UNCHANGED uuid_next

\* the pass of step 3 up to and including the loop body of position i
Step3Upto(s, i) == Step3Loop(compute_step_readiness(s), 1, i, SeededWidgets(s))

\* render_step_3: "Alignment Check"; result is the label of the result that
\* check_alignment returns, or None when check_alignment raises
AlignmentCheck(i, result) ==
    /\ ss.current_step = 3
    /\ i \in 1..Len(ss.los)
    /\ can_check(ss.los[i])
    /\ result = None => ~ss.MOCK_MODE
    /\ LET r == Step3Upto(ss, i)
           lo == r.los[i]
       IN IF result = None
          THEN ss' = DropStaleWidgets(r)
          ELSE ss' = Pass([r EXCEPT
                    !.los[i].alignment = result,
                    !.los[i].alignment_sig =
                        sig_alignment(lo.text, lo.intended_level, r.module_sig)])
    /\ ev' = Event("align", ss.los[i].id, result = None, 0, 0)
    /\ UNCHANGED uuid_next

\* session_state_utils.finalize_lo, applied to the objective at position i
finalize_lo(s, i) ==
    LET lo == s.los[i]
        s1 == [s EXCEPT !.los[i].final_text = lo.text]
        module_sig == s.module_sig
        current_gen_sig == sig_question_gen(lo.text, lo.intended_level, module_sig)
        prev_gen_sig == lo.generation_sig
        s2 == IF Truthy(prev_gen_sig) /\ prev_gen_sig # current_gen_sig
              THEN clear_questions(s1, lo.id) ELSE s1
    IN [s2 EXCEPT !.los[i].generation_sig = current_gen_sig]

\* mutant: the generation signature is set to the current one, as finalize_lo does
AcceptHandler_sets_generation_sig(s, i) ==
    LET lo == s.los[i]
        s1 == [s EXCEPT !.los[i].final_text = lo.text]
        current_gen_sig == sig_question_gen(lo.text, lo.intended_level, s.module_sig)
        prev_gen_sig == lo.generation_sig
        s2 == IF Truthy(prev_gen_sig) /\ prev_gen_sig # current_gen_sig
              THEN clear_questions(s1, lo.id) ELSE s1
    IN [s2 EXCEPT !.los[i].generation_sig = current_gen_sig]

\* mutant: accepting removes the question set whatever the signatures are
AcceptHandler_always_clears(s, i) ==
    LET lo == s.los[i]
        s1 == [s EXCEPT !.los[i].final_text = lo.text]
    IN [clear_questions(s1, lo.id) EXCEPT !.los[i].generation_sig = None]

\* mutant: accepting never compares the generation signature
AcceptHandler_without_comparison(s, i) ==
    [s EXCEPT !.los[i].final_text = s.los[i].text]

\* render_step_3: the handler of "Accept as final" and of "Accept All"
AcceptHandler(s, i) ==
    LET lo == s.los[i]
        s1 == [s EXCEPT !.los[i].final_text = lo.text]
        current_gen_sig == sig_question_gen(lo.text, lo.intended_level, s.module_sig)
        prev_gen_sig == lo.generation_sig
    IN IF Truthy(prev_gen_sig) /\ prev_gen_sig # current_gen_sig
       THEN [clear_questions(s1, lo.id) EXCEPT !.los[i].generation_sig = None]
       ELSE s1

\* whether accepting the objective at position i finds a generation signature
\* that differs from the signature of its current text and level
GenerationStale(s, i) ==
    /\ Truthy(s.los[i].generation_sig)
    /\ s.los[i].generation_sig #
           sig_question_gen(s.los[i].text, s.los[i].intended_level, s.module_sig)

\* history: 1 when the interaction before this one re-opened the objective id
AfterReopen(e, id) == IF e.op = "reopen" /\ e.id = id THEN 1 ELSE 0

\* render_step_3: "Accept as final"
AcceptAsFinal(i) ==
    /\ ss.current_step = 3
    /\ i \in 1..Len(ss.los)
    /\ can_check(ss.los[i])
    /\ ss' = Pass(AcceptHandler(Step3Upto(ss, i), i))
    /\ ev' = Event("accept", ss.los[i].id, GenerationStale(ss, i),
                AfterReopen(ev, ss.los[i].id), HasQuestions(ss, ss.los[i].id))
    /\ UNCHANGED uuid_next

\* mutant: reopening also resets the questions of the objective
Reopen_resets_questions(i) ==
    /\ ss.current_step = 3
    /\ i \in 1..Len(ss.los)
    /\ Truthy(ss.los[i].final_text)
    /\ LET r == Step3Upto(ss, i)
       IN ss' = Pass([clear_questions(r, r.los[i].id) EXCEPT
                         !.los[i].final_text = None, !.los[i].generation_sig = None])
    /\ ev' = Event("reopen", ss.los[i].id, FALSE, 0, HasQuestions(ss, ss.los[i].id))
    /\ UNCHANGED uuid_next

\* render_step_3: "Re-open"
Reopen(i) ==
    /\ ss.current_step = 3
    /\ i \in 1..Len(ss.los)
    /\ Truthy(ss.los[i].final_text)
    /\ ss' = Pass([Step3Upto(ss, i) EXCEPT !.los[i].final_text = None])
    /\ ev' = [Event("reopen", ss.los[i].id, FALSE, 0, HasQuestions(ss, ss.los[i].id))
                 EXCEPT !.old = ss.los[i].final_text]
    /\ UNCHANGED uuid_next

\* list.remove(x): removes the first element equal to x
ListRemove(list, x) ==
    LET j == CHOOSE k \in 1..Len(list) : list[k] = x /\ \A m \in 1..(k - 1) : list[m] # x
    IN SubSeq(list, 1, j - 1) \o SubSeq(list, j + 1, Len(list))

\* mutant: the delete handler does not call clear_questions
DeleteLO_keeps_questions(i) ==
    /\ ss.current_step = 3
    /\ i \in 1..Len(ss.los)
    /\ LET r == Step3Upto(ss, i)
           lo == r.los[i]
       IN ss' = Pass([r EXCEPT !.los = ListRemove(r.los, lo)])
    /\ ev' = Event("delete", ss.los[i].id, FALSE, Len(ss.los),
                   HasQuestions(ss, ss.los[i].id))
    /\ UNCHANGED uuid_next

\* render_step_3: "Delete"
DeleteLO(i) ==
    /\ ss.current_step = 3
    /\ i \in 1..Len(ss.los)
    /\ LET r == Step3Upto(ss, i)
           lo == r.los[i]
       IN ss' = Pass(clear_questions([r EXCEPT !.los = ListRemove(r.los, lo)], lo.id))
    /\ ev' = Event("delete", ss.los[i].id, FALSE, Len(ss.los),
                   HasQuestions(ss, ss.los[i].id))
    /\ UNCHANGED uuid_next

\* render_step_3: "Add Learning Objective"; uuid_next stands for uuid.uuid4()
AddLO ==
    /\ ss.current_step = 3
    /\ Len(ss.los) < MaxLOs
    /\ uuid_next <= MaxUuid
    /\ ss' = Pass([Step3Upto(ss, Len(ss.los)) EXCEPT !.los = Append(@, NewLO(uuid_next))])
    /\ ev' = Event("add", uuid_next, FALSE, 0, 0)
    /\ uuid_next' = uuid_next + 1

\* render_step_3: the loop of "Check All" from position i on; results[i] is the
\* label returned for position i; the call for position stop raises (0: none)
RECURSIVE CheckAllLoop(_, _, _, _)
CheckAllLoop(s, i, results, stop) ==
    IF i > Len(s.los) \/ i = stop THEN s
    ELSE CheckAllLoop(
            [s EXCEPT !.los[i].alignment = results[i],
                      !.los[i].alignment_sig =
                          sig_alignment(s.los[i].text, s.los[i].intended_level, s.module_sig)],
            i + 1, results, stop)

\* render_step_3: "Check All"
CheckAll(results, stop) ==
    /\ ss.current_step = 3
    /\ ss.los # <<>>
    /\ stop \in 0..Len(ss.los)
    /\ stop # 0 => (~ss.MOCK_MODE \/ ss.los[stop].intended_level = None)
    /\ results \in [1..Len(ss.los) -> AlignResults]
    /\ LET r == CheckAllLoop(Step3Upto(ss, Len(ss.los)), 1, results, stop)
       IN ss' = IF stop # 0 THEN DropStaleWidgets(r) ELSE Pass(r)
    /\ ev' = Event("check_all", NoId, stop # 0,
                   IF stop # 0 THEN stop - 1 ELSE Len(ss.los), 0)
    /\ UNCHANGED uuid_next

RECURSIVE AcceptAllLoop(_, _)
AcceptAllLoop(s, i) ==
    IF i > Len(s.los) THEN s ELSE AcceptAllLoop(AcceptHandler(s, i), i + 1)

\* render_step_3: "Accept All"
AcceptAll ==
    /\ ss.current_step = 3
    /\ ss.los # <<>>
    /\ ss' = Pass(AcceptAllLoop(Step3Upto(ss, Len(ss.los)), 1))
    /\ ev' = Event("accept_all", NoId, FALSE, Len(ss.los), 0)
    /\ UNCHANGED uuid_next

\* render_step_4: can_generate
can_generate(s) ==
    /\ Truthy(s.module_text)
    /\ s.los # <<>>
    /\ \A i \in 1..Len(s.los) : Truthy(s.los[i].final_text)

\* render_step_4: the user changes the question count of an objective
SetNQ(i, n) ==
    /\ ss.current_step = 4
    /\ i \in 1..Len(ss.los)
    /\ n # Get(ss.nq, ss.los[i].id, 1)
    /\ ss' = Pass([ss EXCEPT !.nq = Put(@, ss.los[i].id, n)])
    /\ ev' = Event("set_nq", ss.los[i].id, FALSE, 0, 0)
    /\ UNCHANGED uuid_next

\* mutant: the generation signature is not stored
RECURSIVE GenerateLoop_without_signature(_, _, _)
GenerateLoop_without_signature(s, i, stop) ==
    IF i > Len(s.los) THEN s
    ELSE LET lo == s.los[i]
             n == Get(s.nq, lo.id, 1)
         IN IF n = 0 THEN GenerateLoop_without_signature(s, i + 1, stop)
            ELSE IF i = stop THEN s
            ELSE GenerateLoop_without_signature(
                    [s EXCEPT !.questions = Put(@, lo.id, generate_mock_questions(n))],
                    i + 1, stop)

\* render_step_4: the loop of "Generate" from position i on; the call of
\* generate_questions for position stop raises (0: none)
RECURSIVE GenerateLoop(_, _, _)
GenerateLoop(s, i, stop) ==
    IF i > Len(s.los) THEN s
    ELSE LET lo == s.los[i]
             n == Get(s.nq, lo.id, 1)
         IN IF n = 0 THEN GenerateLoop(s, i + 1, stop)
            ELSE IF i = stop THEN s
            ELSE GenerateLoop(
                    [s EXCEPT !.questions = Put(@, lo.id, generate_mock_questions(n)),
                              !.los[i].generation_sig =
                                  sig_question_gen(lo.final_text, lo.intended_level,
                                                   s.module_sig)],
                    i + 1, stop)

\* render_step_4: "Generate"
Generate(stop) ==
    /\ ss.current_step = 4
    /\ can_generate(ss)
    /\ stop \in 0..Len(ss.los)
    /\ stop # 0 => (~ss.MOCK_MODE /\ Get(ss.nq, ss.los[stop].id, 1) # 0)
    /\ LET r == GenerateLoop(
                    clear_questions(Step4SeedNQ(compute_step_readiness(ss)), NoId), 1, stop)
       IN ss' = IF stop # 0 THEN DropStaleWidgets(r)
                ELSE Pass([r EXCEPT !.questions_sig = sig_questions(r.questions)])
    /\ ev' = Event("generate", NoId, stop # 0, Len(ss.los), 0)
    /\ UNCHANGED uuid_next

\* the fields of a question that display_editable_question binds to widgets;
\* "text" and "option_rationale" are the fields of an option
QuestionFields ==
    {"stem", "correct_option_id", "contentReference", "cognitive_rationale",
     "text", "option_rationale"}

\* the option whose widgets the exploration edits
EditedOption == 1

\* the value the exploration types into the widget of a field
EditedValue(field) == IF field = "correct_option_id" THEN "A" ELSE <<"x">>

\* the question with the widget value written to the field
EditedQuestion(q, field) ==
    IF field \in {"text", "option_rationale"}
    THEN [q EXCEPT !.options[EditedOption][field] = EditedValue(field)]
    ELSE [q EXCEPT ![field] = EditedValue(field)]

\* the number of edited fields of the question
CountEdited(q) == Cardinality({f \in QuestionFields : EditedQuestion(q, f) = q})

\* render_step_4: the "Editable questions" toggle
ToggleEditable ==
    /\ ss.current_step = 4
    /\ has_questions(ss)
    /\ ss' = Pass([ss EXCEPT !.editable_questions = ~@])
    /\ ev' = Event("toggle_editable", NoId, FALSE, 0, 0)
    /\ UNCHANGED uuid_next

\* render_step_4, display_editable_question: the user changes the widget of a
\* field of question qi of the objective at position i
EditQuestion(i, qi, field) ==
    /\ ss.current_step = 4
    /\ ss.editable_questions
    /\ i \in 1..Len(ss.los)
    /\ ss.los[i].id \in DOMAIN ss.questions
    /\ qi \in 1..Len(ss.questions[ss.los[i].id])
    /\ LET id == ss.los[i].id
           q == ss.questions[id][qi]
       IN /\ EditedQuestion(q, field) # q
          /\ CountEdited(q) < MaxEdits
          /\ ss' = Pass([ss EXCEPT !.questions[id][qi] = EditedQuestion(q, field)])
          /\ ev' = Event("edit_question", id, Truthy(ss.docx_file), qi, 0)
    /\ UNCHANGED uuid_next

\* the check boxes of the export step that the exploration toggles
ToggledBlocks == {"lo"}

\* render_step_5: the user toggles a check box
ToggleInclude(b) ==
    /\ ss.current_step = 5
    /\ b \in DOMAIN ss.exp_inc
    /\ ss' = Pass([ss EXCEPT !.exp_inc[b] = ~@])
    /\ ev' = Event("toggle_include", NoId, FALSE, 0, 0)
    /\ UNCHANGED uuid_next

\* render_step_5: "Build question DOCX"
BuildDocx ==
    /\ ss.current_step = 5
    /\ LET r == Step5Options(compute_step_readiness(ss))
       IN ss' = DropStaleWidgets(
                    [r EXCEPT !.docx_file = build_questions_docx(r.los, r.questions,
                                                                 r.include_opts),
                              !.prev_build_inc_opts = r.include_opts,
                              !.built = TRUE,
                              !.built_questions = r.questions])
    /\ ev' = Event("build_docx", NoId, ss.built, 0,
                   IF ss.built /\ ss.built_questions # ss.questions THEN 1 ELSE 0)
    /\ UNCHANGED uuid_next

\* render_step_5: the "Download questions" button is enabled
download_enabled(s) ==
    ~(~Truthy(s.docx_file) \/ s.prev_build_inc_opts # s.include_opts)

\* the documents that the user submits besides the saved file: a document that
\* is not an object, the empty object, an object without a "state" member, an
\* object whose "state" member is not an object, and an object whose "state"
\* holds one domain key and one key that is not a domain key
NotAnObject == JsonOther

EmptyObject == JsonObject(EmptyMap)

NoStateObject == JsonObject([k \in {"version"} |-> 1])

StateNotObject == JsonObject([k \in {"state"} |-> JsonOther])

PartialSnapshot ==
    JsonObject([k \in {"state"} |->
        JsonObject([x \in {"module_text", "current_step"} |->
                       IF x = "module_text" THEN <<"c1">> ELSE 4])])

HandMadeDocs == {NotAnObject, EmptyObject, NoStateObject, StateNotObject, PartialSnapshot}

\* the "state" of a snapshot as restore_state reads it
SnapshotState(doc) == Get(doc.members, "state", JsonObject(EmptyMap))

\* the signatures stored in the state of a snapshot are those of its content
Consistent(data) ==
    LET module_sig == Get(data, "module_sig", EmptyStr)
        module_text == Get(data, "module_text", EmptyStr)
        los == Get(data, "los", <<>>)
    IN /\ IF Truthy(module_text) THEN module_sig = sig_module(module_text)
          ELSE ~Truthy(module_sig) \/ module_sig = sig_module(module_text)
       /\ \A i \in 1..Len(los) :
             /\ Truthy(los[i].alignment_sig) =>
                   los[i].alignment_sig =
                       sig_alignment(los[i].text, los[i].intended_level, module_sig)
             /\ Truthy(los[i].generation_sig) =>
                   los[i].generation_sig =
                       sig_question_gen(los[i].final_text, los[i].intended_level, module_sig)

\* apply_pending_restore on the payload that load_progress_ui stored; the new
\* uploader_key gives both file uploaders a new widget without files
apply_pending_restore(s, payload) ==
    IF DOMAIN payload.members = {} THEN [restored |-> FALSE, s |-> s]
    ELSE LET r == restore_state(s, payload)
         IN IF r.raised THEN [restored |-> FALSE, s |-> s]
            ELSE [restored |-> TRUE,
                  s |-> [r.s EXCEPT !.course_uploader = <<>>, !.module_uploader = <<>>]]

\* load_progress_ui and the passes after it: saved_state.get raises on a
\* document that is not an object and the pass goes on; else the payload is
\* stored, the next pass applies it and, after a restore, one more pass runs
LoadCycle(s, doc) ==
    LET r == IF IsDict(doc) THEN apply_pending_restore(s, doc)
             ELSE [restored |-> FALSE, s |-> s]
    IN [restored |-> r.restored, s |-> Pass(init_session_state(r.s))]

\* save_progress_ui: the user downloads the payload of the "Save" button; the
\* payload was built by a pass that started from the present state
SaveProgress ==
    /\ ss.saved_file # exportable_state(ss)
    /\ ss' = Pass([ss EXCEPT !.saved_file = exportable_state(ss)])
    /\ ev' = Event("save", NoId, FALSE, 0, 0)
    /\ UNCHANGED uuid_next

\* load_progress_ui: the user submits the load form with a file; the event
\* records the document, whether it was restored, whether it was a consistent
\* snapshot (n) and the number of objectives that the load found (q)
LoadProgress(doc) ==
    /\ LET r == LoadCycle(ss, doc)
       IN /\ ss' = r.s
          /\ ev' = [op |-> "load", id |-> NoId, flag |-> r.restored,
                    n |-> IF r.restored /\ Consistent(SnapshotState(doc).members)
                          THEN 1 ELSE 0,
                    q |-> Len(ss.los), old |-> EmptyStr, doc |-> doc]
    /\ UNCHANGED uuid_next

\* The interactions of the module upload, objectives and question steps.
Next ==
    \/ \E k \in 1..4 : Navigate(k)
    \/ \E files \in SeqsUpTo(ModuleUserFiles, MaxFiles) : UploadModule(files)
    \/ AddLO
    \/ \E i \in 1..MaxLOs, t \in LoTexts : EditText(i, t)
    \/ \E i \in 1..MaxLOs, l \in LoLevels : EditLevel(i, l)
    \/ \E i \in 1..MaxLOs, result \in AlignResults \cup {None} : AlignmentCheck(i, result)
    \/ \E i \in 1..MaxLOs : AcceptAsFinal(i)
    \/ \E i \in 1..MaxLOs : Reopen(i)
    \/ \E i \in 1..MaxLOs : DeleteLO(i)
    \/ \E stop \in 0..MaxLOs :
           \E results \in [1..Len(ss.los) -> AlignResults] : CheckAll(results, stop)
    \/ AcceptAll
    \/ \E i \in 1..MaxLOs, n \in 0..MaxNQ : SetNQ(i, n)
    \/ \E stop \in 0..MaxLOs : Generate(stop)

Spec == Init /\ [][Next]_vars

\* The interactions of a session with one objective at a time, from the module
\* upload to the export step.
NextExport ==
    \/ \E k \in 2..5 : Navigate(k)
    \/ UploadModule(<<FileA>>)
    \/ ss.los = <<>> /\ AddLO
    \/ EditText(1, <<"a">>)
    \/ \E l \in LoLevels : EditLevel(1, l)
    \/ AcceptAsFinal(1)
    \/ Reopen(1)
    \/ DeleteLO(1)
    \/ \E n \in 0..MaxNQ : SetNQ(1, n)
    \/ Generate(0)
    \/ ToggleEditable
    \/ \E qi \in 1..MaxNQ, field \in QuestionFields : EditQuestion(1, qi, field)
    \/ \E b \in ToggledBlocks : ToggleInclude(b)
    \/ BuildDocx

SpecExport == Init /\ [][NextExport]_vars

\* The interactions of a session with one objective that is saved and loaded.
NextLoad ==
    \/ \E k \in 1..4 : Navigate(k)
    \/ UploadModule(<<FileA>>)
    \/ ss.los = <<>> /\ AddLO
    \/ EditText(1, <<"a">>)
    \/ EditLevel(1, Apply)
    \/ \E result \in AlignResults : AlignmentCheck(1, result)
    \/ AcceptAsFinal(1)
    \/ Generate(0)
    \/ SaveProgress
    \/ \E doc \in HandMadeDocs : LoadProgress(doc)
    \/ ss.saved_file # NoFile /\ LoadProgress(ss.saved_file)

SpecLoad == Init /\ [][NextLoad]_vars

\* the module uploads of a session that meets the token limit: no file, a
\* file below the limit and a file above it
LimitUploads == {<<>>, <<FileA>>, <<FileBig>>}

\* The interactions of a session with one objective whose module may exceed
\* the token limit.
NextLimit ==
    \/ \E k \in 1..4 : Navigate(k)
    \/ \E files \in LimitUploads : UploadModule(files)
    \/ ss.los = <<>> /\ AddLO
    \/ EditText(1, <<"a">>)
    \/ EditLevel(1, Apply)
    \/ \E result \in AlignResults : AlignmentCheck(1, result)
    \/ AcceptAsFinal(1)
    \/ DeleteLO(1)
    \/ Generate(0)

SpecLimit == Init /\ [][NextLimit]_vars

\* the lists of reasons of the alignment payloads of the exploration: no
\* reason, one, three and four reasons
ReasonLists == {<<>>, << <<"r">> >>, << <<"r">>, <<"r">>, <<"r">> >>,
                << <<"r">>, <<"r">>, <<"r">>, <<"r">> >>}

\* the payloads that the language model returns for an alignment check:
\* complete payloads with a known or an unknown label and a list of reasons
\* or a value that is no list, a payload without "suggested_lo" and a payload
\* without "label"
AlignPayloads ==
    {[label |-> l, reasons |-> r, suggested_lo |-> None] :
        l \in {<<"ambiguous">>, <<"maybe">>},
        r \in {JsonList(x) : x \in ReasonLists} \cup {JsonOther}}
    \cup {[label |-> <<"ambiguous">>, reasons |-> JsonList(<< <<"r">> >>)],
          [reasons |-> JsonList(<< <<"r">> >>), suggested_lo |-> None]}

\* render_step_3: "Alignment Check" when check_alignment obtains obj from the
\* language model
AlignmentCheckFrom(i, obj) ==
    /\ ss.current_step = 3
    /\ i \in 1..Len(ss.los)
    /\ can_check(ss.los[i])
    /\ ~ss.MOCK_MODE
    /\ LET r == Step3Upto(ss, i)
           lo == r.los[i]
           raised == validate_alignment_payload(obj).raised
       IN /\ IF raised
             THEN ss' = DropStaleWidgets(r)
             ELSE ss' = Pass([r EXCEPT
                       !.los[i].alignment = obj,
                       !.los[i].alignment_sig =
                           sig_alignment(lo.text, lo.intended_level, r.module_sig)])
          /\ ev' = [op |-> "align", id |-> ss.los[i].id, flag |-> raised, n |-> 0,
                    q |-> 0, old |-> EmptyStr, doc |-> obj]
    /\ UNCHANGED uuid_next

\* MockQuestion(1) with other options, type or correct option id
QuestionWith(options, type, correct) ==
    [MockQuestion(1) EXCEPT !.options = options, !.type = type,
                            !.correct_option_id = correct]

Opt(id) == [id |-> id, text |-> <<"t">>, option_rationale |-> <<"why">>]

\* the question lists that the language model returns: a valid question, a
\* valid question with its options in another order, questions with three
\* options, with a repeated id, with an id outside A-D, of another type and
\* with a correct option id outside A-D, and a valid question followed by an
\* invalid one
QuestionLists ==
    LET abcd == <<Opt("A"), Opt("B"), Opt("C"), Opt("D")>>
        valid == QuestionWith(abcd, "MCQ_4", "B")
        bad_correct == QuestionWith(abcd, "MCQ_4", "E")
    IN {<<>>,
        <<valid>>,
        <<QuestionWith(<<Opt("D"), Opt("C"), Opt("B"), Opt("A")>>, "MCQ_4", "D")>>,
        <<QuestionWith(<<Opt("A"), Opt("B"), Opt("C")>>, "MCQ_4", "B")>>,
        <<QuestionWith(<<Opt("A"), Opt("A"), Opt("B"), Opt("C")>>, "MCQ_4", "B")>>,
        <<QuestionWith(<<Opt("A"), Opt("B"), Opt("C"), Opt("E")>>, "MCQ_4", "B")>>,
        <<QuestionWith(abcd, "TF", "B")>>,
        <<bad_correct>>,
        <<valid, bad_correct>>}

\* the payloads that the language model returns for a question generation: a
\* payload with a list of questions, with a value that is no list and
\* without "questions"
QuestionPayloads ==
    {[questions |-> JsonList(x)] : x \in QuestionLists}
    \cup {[questions |-> JsonOther], [note |-> <<"n">>]}

\* render_step_4: the loop of "Generate" from position i on when every call of
\* generate_questions obtains obj from the language model
RECURSIVE GenerateLoopFrom(_, _, _)
GenerateLoopFrom(s, i, obj) ==
    IF i > Len(s.los) THEN [raised |-> FALSE, s |-> s]
    ELSE LET lo == s.los[i]
             n == Get(s.nq, lo.id, 1)
         IN IF n = 0 THEN GenerateLoopFrom(s, i + 1, obj)
            ELSE IF validate_questions_payload(obj).raised THEN [raised |-> TRUE, s |-> s]
            ELSE GenerateLoopFrom(
                    [s EXCEPT !.questions = Put(@, lo.id, obj.questions.items),
                              !.los[i].generation_sig =
                                  sig_question_gen(lo.final_text, lo.intended_level,
                                                   s.module_sig)],
                    i + 1, obj)

\* render_step_4: "Generate" with the language model; the event records the
\* payload, whether a call raised, and in q the calls that the loop had to make
GenerateFrom(obj) ==
    /\ ss.current_step = 4
    /\ can_generate(ss)
    /\ ~ss.MOCK_MODE
    /\ LET r == GenerateLoopFrom(
                    clear_questions(Step4SeedNQ(compute_step_readiness(ss)), NoId), 1, obj)
       IN /\ ss' = IF r.raised THEN DropStaleWidgets(r.s)
                   ELSE Pass([r.s EXCEPT !.questions_sig = sig_questions(r.s.questions)])
          /\ ev' = [op |-> "generate", id |-> NoId, flag |-> r.raised, n |-> Len(ss.los),
                    q |-> Cardinality({i \in 1..Len(ss.los) :
                                          Get(ss.nq, ss.los[i].id, 1) # 0}),
                    old |-> EmptyStr, doc |-> obj]
    /\ UNCHANGED uuid_next

\* The interactions of a session with one objective whose alignment results
\* and questions come from the language model.
NextLLM ==
    \/ \E k \in 2..4 : Navigate(k)
    \/ UploadModule(<<FileA>>)
    \/ ss.los = <<>> /\ AddLO
    \/ EditText(1, <<"a">>)
    \/ EditLevel(1, Apply)
    \/ \E obj \in AlignPayloads : AlignmentCheckFrom(1, obj)
    \/ AcceptAsFinal(1)
    \/ Reopen(1)
    \/ \E n \in 0..MaxNQ : SetNQ(1, n)
    \/ \E obj \in QuestionPayloads : GenerateFrom(obj)

SpecLLM == Init /\ [][NextLLM]_vars

\* MockQuestion(1) with another stem, content reference and rationale
PlainQuestion(stem, ref, cog) ==
    [MockQuestion(1) EXCEPT !.stem = stem, !.contentReference = ref,
                            !.cognitive_rationale = cog]

\* the question with its options in the opposite order
ReversedOptions(q) ==
    [q EXCEPT !.options = [k \in 1..Len(@) |-> @[Len(@) + 1 - k]]]

\* the question lists of the dictionaries whose order is explored: two
\* questions that differ in the stem, alone, with reversed options and in
\* both orders
OrderLists ==
    LET qx == PlainQuestion(<<"x">>, <<"r">>, <<"g">>)
        qy == PlainQuestion(<<"y">>, <<"r">>, <<"g">>)
    IN {<<qx>>, <<ReversedOptions(qx)>>, <<qx, qy>>, <<qy, qx>>, <<qx, qx>>}

\* dictionaries of one or two objectives, in both insertion orders
OrderInputs ==
    {<< <<id, qs>> >> : id \in 1..2, qs \in OrderLists}
    \cup {<< <<id, qs>>, <<3 - id, rs>> >> : id \in 1..2, qs \in OrderLists, rs \in OrderLists}

\* the values of the content reference and the rationale of the question of
\* objective 1 at position 0: texts of up to two pieces, one of which is a
\* line break followed by the text "1#0|cog:x"
FieldPieces == {<<"x">>, <<"\n", "1", "#", "0", "|cog:", "x">>}

FieldValues == {<<>>} \cup FieldPieces \cup {a \o b : a \in FieldPieces, b \in FieldPieces}

\* dictionaries of one objective with one question whose content reference
\* and rationale are such values
FieldInputs ==
    {<< <<1, <<PlainQuestion(<<"x">>, ref, cog)>> >> >> :
        ref \in FieldValues, cog \in FieldValues}

\* sig_questions on a dictionary given with its insertion order; the event
\* records the dictionary and the payload that is hashed
SigQuestionsOf(items) ==
    /\ ev' = [op |-> "sig_questions", id |-> NoId, flag |-> FALSE, n |-> Len(items),
              q |-> 0, old |-> EmptyStr, doc |-> items,
              payload |-> questions_payload_of_items(items)]
    /\ UNCHANGED <<ss, uuid_next>>

Remember == <<"R", "e", "m", "e", "m", "b", "e", "r">>
Understand == <<"U", "n", "d", "e", "r", "s", "t", "a", "n", "d">>
Analyze == <<"A", "n", "a", "l", "y", "z", "e">>
Evaluate == <<"E", "v", "a", "l", "u", "a", "t", "e">>

\* the six Bloom levels and the unset level
SixLevelsOrUnset == {Remember, Understand, Apply, Analyze, Evaluate, Create, None}

\* the module signatures: the empty one and two digests
ModuleSigs == {EmptyStr, sig_module(<<"c1">>), sig_module(<<"c2">>)}

\* the objective texts: up to three pieces, among them the separator followed
\* by a level and the separator followed by a digest
TextPieces == {<<"a">>, <<"|">>, SEP \o Apply, SEP \o sig_module(<<"c1">>)}

SigTexts ==
    {<<>>} \cup TextPieces \cup {a \o b : a \in TextPieces, b \in TextPieces}
    \cup {a \o b \o c : a \in TextPieces, b \in TextPieces, c \in TextPieces}

\* sig_alignment and sig_question_gen on a text, a level and a module
\* signature; the event records the arguments and the payloads that are hashed
SigAlignmentOf(lo_text, intended_level, module_sig) ==
    /\ ev' = [op |-> "sig_alignment", id |-> NoId, flag |-> FALSE, n |-> 0, q |-> 0,
              old |-> EmptyStr, doc |-> <<lo_text, intended_level, module_sig>>,
              payload |-> alignment_payload(lo_text, intended_level, module_sig),
              payload_gen |-> question_gen_payload(lo_text, intended_level, module_sig)]
    /\ UNCHANGED <<ss, uuid_next>>

\* The applications of the signature functions to the inputs above.
NextSig ==
    \/ \E items \in OrderInputs \cup FieldInputs : SigQuestionsOf(items)
    \/ \E t \in SigTexts, l \in SixLevelsOrUnset, m \in ModuleSigs : SigAlignmentOf(t, l, m)

SpecSig == Init /\ [][NextSig]_vars

\* the module uploads of a session with up to two files, one of which may
\* fail extraction
TwoFileUploads ==
    {<<>>, <<FileA>>, <<FileBad>>, <<FileA, FileB>>, <<FileA, FileBad>>, <<FileBad, FileA>>}

\* The interactions of a session with one objective and uploads of several
\* module files.
NextFiles ==
    \/ \E k \in 1..4 : Navigate(k)
    \/ \E files \in TwoFileUploads : UploadModule(files)
    \/ ss.los = <<>> /\ AddLO
    \/ EditText(1, <<"a">>)
    \/ EditLevel(1, Apply)
    \/ \E result \in AlignResults : AlignmentCheck(1, result)
    \/ AcceptAsFinal(1)
    \/ DeleteLO(1)
    \/ Generate(0)

SpecFiles == Init /\ [][NextFiles]_vars

\* two objectives, question generation and question editing: the interactions
\* in which Generate runs again after question sets were generated and edited
NextRegen ==
    \/ \E k \in 2..4 : Navigate(k)
    \/ UploadModule(<<FileA>>)
    \/ AddLO
    \/ \E i \in 1..MaxLOs : EditText(i, <<"a">>)
    \/ \E i \in 1..MaxLOs : EditLevel(i, Apply)
    \/ AcceptAll
    \/ \E i \in 1..MaxLOs, n \in 0..MaxNQ : SetNQ(i, n)
    \/ Generate(0)
    \/ ToggleEditable
    \/ EditQuestion(1, 1, "stem")

SpecRegen == Init /\ [][NextRegen]_vars

\* what the user can put into the module uploader around an import: nothing,
\* or one file that is not a course file
ImportUploads == {<<>>, <<FileB>>}

\* course upload at step 1 and import of the course material at step 2
NextImport ==
    \/ \E k \in 1..4 : Navigate(k)
    \/ UploadCourse(<<FileA>>)
    \/ \E files \in ImportUploads : UploadModule(files)
    \/ ImportFromOutline
    \/ ss.los = <<>> /\ AddLO
    \/ EditText(1, <<"a">>)
    \/ EditLevel(1, Apply)
    \/ AcceptAsFinal(1)
    \/ DeleteLO(1)
    \/ Generate(0)

SpecImport == Init /\ [][NextImport]_vars

\* one objective up to the export step, with all six inclusion options
NextOptions ==
    \/ \E k \in 2..5 : Navigate(k)
    \/ UploadModule(<<FileA>>)
    \/ ss.los = <<>> /\ AddLO
    \/ EditText(1, <<"a">>)
    \/ EditLevel(1, Apply)
    \/ AcceptAsFinal(1)
    \/ Generate(0)
    \/ \E b \in INCLUDE_BLOCKS : ToggleInclude(b)
    \/ BuildDocx

SpecOptions == Init /\ [][NextOptions]_vars

(***************************************************************************)
(* Properties.                                                             *)
(***************************************************************************)
Ids(s) == {s.los[i].id : i \in 1..Len(s.los)}

LoById(s, id) == s.los[CHOOSE i \in 1..Len(s.los) : s.los[i].id = id]

\* the objective has no derived field left
DerivedAbsent(lo) ==
    /\ lo.alignment = None
    /\ lo.alignment_sig = None
    /\ lo.final_text = None
    /\ lo.generation_sig = None

\* the objective and its question set are the same in s and t
SameObjective(s, t, id) ==
    /\ id \in Ids(t)
    /\ LoById(t, id) = LoById(s, id)
    /\ (id \in DOMAIN t.questions) = (id \in DOMAIN s.questions)
    /\ id \in DOMAIN s.questions => t.questions[id] = s.questions[id]

\* C1: when an edit of the text or level of an objective makes the alignment
\* signature of its widget values differ from its stored alignment signature,
\* the cycle ends with the objective's alignment, alignment signature, final
\* text and generation signature absent and its question set removed.
C1_EditCascadeClearsAll ==
    (ev.op = "edit" /\ ev.flag) =>
        /\ ev.id \in Ids(ss)
        /\ DerivedAbsent(LoById(ss, ev.id))
        /\ ev.id \notin DOMAIN ss.questions

\* an edit has cascaded on an objective that had a question set
C1_Witness == ev.op = "edit" /\ ev.flag /\ ev.q = 1

\* C2: an edit, accept, reopen or delete of an objective A leaves every other
\* objective B with the same text, level, alignment, alignment signature,
\* final text, generation signature and question set.
C2_CascadeIsolation ==
    [][ev'.op \in {"edit", "accept", "reopen", "delete"} =>
          \A b \in Ids(ss) \ {ev'.id} : SameObjective(ss, ss', b)]_vars

\* an edit has cascaded on one objective while another one is aligned,
\* finalized and has generated questions
C2_Witness ==
    /\ ev.op = "edit" /\ ev.flag /\ ev.q = 1
    /\ \E b \in Ids(ss) \ {ev.id} :
          /\ b \in DOMAIN ss.questions
          /\ Truthy(LoById(ss, b).alignment_sig)
          /\ Truthy(LoById(ss, b).final_text)
          /\ Truthy(LoById(ss, b).generation_sig)

\* C3: after a module upload whose text has a signature different from the
\* stored module signature, no objective of the session has an alignment, a
\* final text or a generation signature and there is no question set.
C3_ModuleCascadeTotal ==
    (ev.op = "upload_module" /\ ev.flag) =>
        /\ \A i \in 1..Len(ss.los) : DerivedAbsent(ss.los[i])
        /\ ss.questions = EmptyMap

\* a module change has found two objectives, both with question sets
C3_Witness == ev.op = "upload_module" /\ ev.flag /\ ev.n = 2 /\ ev.q = 2

C5_ApplyModuleContentIdempotent ==
    [][ev'.op = "upload_module" =>
          /\ ev'.flag => ss'.los = <<>> /\ ss'.questions = EmptyMap
          /\ ~ev'.flag => ss'.los = ss.los /\ ss'.questions = ss.questions
          /\ apply_module_content(ss', ss'.module_text, ss'.module_tokens,
                                  ss'.module_files) = ss']_vars

\* a module upload with the stored content has found an objective with a
\* question set and has kept both
C5_Witness ==
    /\ ev.op = "upload_module" /\ ~ev.flag /\ ev.n >= 1 /\ ev.q >= 1
    /\ ss.module_uploader # <<>>
    /\ ss.los # <<>> /\ ss.questions # EmptyMap

\* the uploads whose files have, position by position, the content of the
\* files of the upload whose text is stored as the module text
SameContentAsStored(s, files) ==
    \E old \in SeqsUpTo(ModuleUserFiles, MaxFiles) :
        /\ old # <<>>
        /\ FileNames(old) = s.module_files
        /\ ~extract_text_and_tokens(old).raised
        /\ extract_text_and_tokens(old).text = s.module_text
        /\ Len(files) = Len(old)
        /\ \A i \in 1..Len(old) :
              files[i].readable /\ files[i].content = old[i].content

\* C6: an upload of files with the content of the stored module files, under
\* any file names, leaves the module signature, the objectives and the
\* question sets unchanged.
C6_RenamedUploadKeepsState ==
    [][(ev'.op = "upload_module" /\ SameContentAsStored(ss, ss'.module_uploader)) =>
          /\ ss'.module_sig = ss.module_sig
          /\ ss'.los = ss.los
          /\ ss'.questions = ss.questions]_vars

\* C7: at the end of every cycle an objective has an alignment signature
\* exactly when it has an alignment result, and a present alignment signature
\* is the alignment signature of the current text, level and module signature.
C7_AlignmentSignatureCurrent ==
    \A i \in 1..Len(ss.los) :
        LET lo == ss.los[i]
        IN /\ Truthy(lo.alignment_sig) <=> lo.alignment # None
           /\ Truthy(lo.alignment_sig) =>
                 lo.alignment_sig = sig_alignment(lo.text, lo.intended_level, ss.module_sig)

\* "Check All" on two objectives has stored the result of the first and the
\* call for the second has raised
C7_Witness ==
    /\ ev.op = "check_all" /\ ev.flag /\ ev.n = 1
    /\ Len(ss.los) = 2
    /\ Truthy(ss.los[1].alignment_sig)
    /\ ~Truthy(ss.los[2].alignment_sig)

\* the objective has text other than white space and a level
HasTextAndLevel(lo) == Strip(lo.text) # <<>> /\ lo.intended_level # None

\* C8: the final text of an objective becomes present only in a cycle of
\* "Accept as final" or "Accept All" that found the objective with non-empty
\* text and a level.
C8_AcceptGuard ==
    [][\A id \in Ids(ss') :
          (/\ Truthy(LoById(ss', id).final_text)
           /\ ~(id \in Ids(ss) /\ Truthy(LoById(ss, id).final_text))) =>
              /\ ev'.op \in {"accept", "accept_all"}
              /\ id \in Ids(ss)
              /\ HasTextAndLevel(LoById(ss, id))]_vars

\* C9: "Alignment Check" and "Check All" store an alignment result and an
\* alignment signature only for objectives with non-empty text and a level.
C9_AlignmentGuard ==
    [][\A id \in Ids(ss') :
          (/\ ev'.op \in {"align", "check_all"}
           /\ Truthy(LoById(ss', id).alignment_sig)
           /\ id \in Ids(ss)
           /\ LoById(ss', id).alignment_sig # LoById(ss, id).alignment_sig) =>
              HasTextAndLevel(LoById(ss, id))]_vars

\* C10: "Accept as final" sets the final text to the text; when the objective
\* has a generation signature that differs from the generation signature of
\* its text, level and the module signature, its question set is removed and
\* its generation signature becomes absent, otherwise both are kept; the
\* alignment and the alignment signature stay as they were.
C10_AcceptEffect ==
    [][ev'.op = "accept" =>
          LET id == ev'.id
              old == LoById(ss, id)
              new == LoById(ss', id)
              stale == /\ Truthy(old.generation_sig)
                       /\ old.generation_sig #
                              sig_question_gen(old.text, old.intended_level, ss.module_sig)
          IN /\ id \in Ids(ss')
             /\ new.final_text = old.text
             /\ stale => id \notin DOMAIN ss'.questions /\ new.generation_sig = None
             /\ ~stale =>
                   /\ new.generation_sig = old.generation_sig
                   /\ (id \in DOMAIN ss'.questions) = (id \in DOMAIN ss.questions)
                   /\ id \in DOMAIN ss.questions => ss'.questions[id] = ss.questions[id]
             /\ new.alignment = old.alignment
             /\ new.alignment_sig = old.alignment_sig]_vars

\* "Accept as final" has found a question set generated for another text or
\* level of the objective
C10_Witness ==
    /\ ev.op = "accept" /\ ev.flag /\ ev.q = 1
    /\ ev.id \in Ids(ss)
    /\ Truthy(LoById(ss, ev.id).final_text)

\* C11: "Re-open" sets the final text of the objective to None and leaves its
\* other fields, its question set and every other objective and question set
\* as they were.
C11_ReopenEffect ==
    [][ev'.op = "reopen" =>
          /\ ev'.id \in Ids(ss')
          /\ LoById(ss', ev'.id) = [LoById(ss, ev'.id) EXCEPT !.final_text = None]
          /\ Len(ss'.los) = Len(ss.los)
          /\ \A b \in Ids(ss) \ {ev'.id} : SameObjective(ss, ss', b)
          /\ ss'.questions = ss.questions]_vars

\* an aligned objective with generated questions has been reopened
C11_Witness ==
    /\ ev.op = "reopen" /\ ev.q = 1
    /\ ev.id \in Ids(ss)
    /\ LoById(ss, ev.id).final_text = None
    /\ Truthy(LoById(ss, ev.id).alignment_sig)
    /\ Truthy(LoById(ss, ev.id).generation_sig)
    /\ ev.id \in DOMAIN ss.questions

\* the objective gets an alignment it did not have
AlignmentAppears(s, t, id) ==
    /\ id \in Ids(t)
    /\ LoById(t, id).alignment # None
    /\ id \in Ids(s) => LoById(s, id).alignment = None

\* C12: an edit that gives the text or level back the value it had before an
\* edit that cleared the objective leaves the alignment and the alignment
\* signature absent, and an alignment becomes present only in a cycle of
\* "Alignment Check" or "Check All".
C12_NoResurrection ==
    [][/\ (ev'.op = "edit" /\ ev'.n = 1) =>
             /\ LoById(ss', ev'.id).alignment = None
             /\ LoById(ss', ev'.id).alignment_sig = None
       /\ \A id \in Ids(ss') :
             AlignmentAppears(ss, ss', id) => ev'.op \in {"align", "check_all"}]_vars

\* the text of an objective is back at the value with which it was aligned,
\* after an edit of the text that cleared the objective
C12_Witness ==
    /\ ev.op = "edit" /\ ev.n = 1 /\ ev.old = EmptyStr
    /\ ev.id \in Ids(ss)
    /\ LoById(ss, ev.id).text = <<"a">>
    /\ LoById(ss, ev.id).intended_level # None

\* the list without the objective id, in the same order
RECURSIVE WithoutId(_, _)
WithoutId(los, id) ==
    IF los = <<>> THEN <<>>
    ELSE IF Head(los).id = id THEN WithoutId(Tail(los), id)
    ELSE <<Head(los)>> \o WithoutId(Tail(los), id)

\* C13: "Delete" removes the chosen objective from the list and removes its
\* question set, the other objectives and their question sets stay as they
\* were, and in every state question sets are keyed only by objectives of the
\* list.
C13_DeleteEffect ==
    [][/\ ev'.op = "delete" =>
             /\ ss'.los = WithoutId(ss.los, ev'.id)
             /\ Len(ss'.los) = Len(ss.los) - 1
             /\ ev'.id \notin DOMAIN ss'.questions
             /\ \A b \in Ids(ss) \ {ev'.id} : SameObjective(ss, ss', b)
       /\ DOMAIN ss'.questions \subseteq Ids(ss')]_vars

\* one of two objectives with question sets has been deleted
C13_Witness ==
    /\ ev.op = "delete" /\ ev.n = 2 /\ ev.q = 1
    /\ Len(ss.los) = 1
    /\ DOMAIN ss.questions = Ids(ss)

\* the question count asked for the objective
RequestedCount(s, id) == Get(s.nq, id, 1)

\* C14: "Generate" runs only with a non-empty module text, at least one
\* objective and a final text on every objective; when it runs to its end,
\* every objective with a requested count above zero has a question set and
\* the generation signature of its final text, level and the module signature.
C14_GenerateEffect ==
    [][ev'.op = "generate" =>
          /\ Truthy(ss.module_text)
          /\ ss.los # <<>>
          /\ \A i \in 1..Len(ss.los) : Truthy(ss.los[i].final_text)
          /\ ~ev'.flag =>
                /\ Len(ss'.los) = Len(ss.los)
                /\ \A i \in 1..Len(ss.los) :
                      RequestedCount(ss, ss.los[i].id) > 0 =>
                          /\ ss.los[i].id \in DOMAIN ss'.questions
                          /\ ss'.los[i].generation_sig =
                                 sig_question_gen(ss.los[i].final_text,
                                                  ss.los[i].intended_level, ss.module_sig)]_vars

\* "Generate" has run to its end for two objectives, one of them with a
\* requested count of zero
C14_Witness ==
    /\ ev.op = "generate" /\ ~ev.flag /\ ev.n = 2
    /\ Cardinality(DOMAIN ss.questions) = 1
    /\ \E i \in 1..Len(ss.los) :
          /\ ss.los[i].id \in DOMAIN ss.questions
          /\ Truthy(ss.los[i].generation_sig)

\* some question of the session has an edited field
SomeQuestionEdited(s) ==
    \E id \in DOMAIN s.questions :
        \E qi \in 1..Len(s.questions[id]) : CountEdited(s.questions[id][qi]) > 0

\* C15: whenever the export step shows the "Download questions" button
\* enabled, a built document is present, the inclusion options equal the
\* options stored at the last build, and the question sets are the question
\* sets of the last build.
C15_ExportGate ==
    (ss.current_step = 5 /\ download_enabled(ss)) =>
        /\ Truthy(ss.docx_file)
        /\ ss.prev_build_inc_opts = ss.include_opts
        /\ ss.built
        /\ ss.questions = ss.built_questions

\* the download is enabled for a document built from edited questions after
\* an earlier build from other question sets
C15_Witness ==
    /\ ss.current_step = 5 /\ download_enabled(ss)
    /\ ev.op = "build_docx" /\ ev.flag /\ ev.q = 1
    /\ SomeQuestionEdited(ss)

\* C16: a change of a field of a question leaves no built document, so the
\* download is disabled; no document is present again before the next build;
\* a build leaves the download enabled.
C16_ExportStaleness ==
    [][/\ ev'.op = "edit_question" =>
             ~Truthy(ss'.docx_file) /\ ~download_enabled(ss')
       /\ (~Truthy(ss.docx_file) /\ ev'.op # "build_docx") => ~Truthy(ss'.docx_file)
       /\ ev'.op = "build_docx" =>
             ss'.current_step = 5 /\ download_enabled(ss')]_vars

\* the document has been built again after a question field was changed
\* following an earlier build
C16_Witness ==
    /\ ev.op = "build_docx" /\ ev.flag /\ ev.q = 1
    /\ download_enabled(ss)
    /\ ss.built_questions = ss.questions
    /\ \E id \in DOMAIN ss.questions :
          \E qi \in 1..Len(ss.questions[id]) : CountEdited(ss.questions[id][qi]) = 1

\* a well-formed snapshot: an object whose "state" member is an object
WellFormed(doc) ==
    IsDict(doc) /\ "state" \in DOMAIN doc.members /\ IsDict(doc.members["state"])

\* C17: restore_state on a well-formed snapshot leaves in the session exactly
\* those domain keys that the state of the snapshot holds, with the values of
\* the snapshot, writes no key outside DOMAIN_STATE_KEYS other than
\* current_step, and sets current_step to 1; the cycle of the load ends on
\* step 1 with the values of the snapshot.
C17_RestoreState ==
    [][(ev'.op = "load" /\ WellFormed(ev'.doc)) =>
          LET data == ev'.doc.members["state"].members
              r == restore_state(ss, ev'.doc)
          IN /\ ~r.raised
             /\ \A k \in DOMAIN_STATE_KEYS :
                   /\ k \in DOMAIN r.s <=> k \in DOMAIN data
                   /\ k \in DOMAIN data => r.s[k] = data[k]
             /\ (DOMAIN r.s) \ DOMAIN_STATE_KEYS = ((DOMAIN ss) \ DOMAIN_STATE_KEYS)
             /\ \A k \in (DOMAIN r.s) \ (DOMAIN_STATE_KEYS \cup {"current_step"}) :
                   r.s[k] = ss[k]
             /\ r.s.current_step = 1
             /\ ev'.flag
             /\ ss'.current_step = 1
             /\ \A k \in DOMAIN_STATE_KEYS \cap DOMAIN data : ss'[k] = data[k]]_vars

\* a load that found an objective restored a snapshot without objectives whose
\* state holds a key outside the allow-list
C17_Witness ==
    /\ ev.op = "load" /\ ev.flag /\ ev.q = 1
    /\ "current_step" \in DOMAIN SnapshotState(ev.doc).members
    /\ ss.los = <<>> /\ ss.module_text = <<"c1">> /\ ss.current_step = 1

\* no objective is removed and no alignment, final text, signature or question
\* set differs between s and t
NothingInvalidated(s, t) ==
    /\ Len(t.los) = Len(s.los)
    /\ \A i \in 1..Len(s.los) :
          /\ t.los[i].id = s.los[i].id
          /\ t.los[i].alignment = s.los[i].alignment
          /\ t.los[i].alignment_sig = s.los[i].alignment_sig
          /\ t.los[i].final_text = s.los[i].final_text
          /\ t.los[i].generation_sig = s.los[i].generation_sig
    /\ t.questions = s.questions

\* C18: the load of a consistent snapshot ends with the objectives, question
\* sets and module signature of the snapshot, and every change of the step
\* shown that follows it, before any other interaction, removes no objective
\* and clears no alignment, final text, generation signature or question set.
C18_LoadNoInvalidation ==
    [][/\ (ev'.op = "load" /\ ev'.n = 1) =>
             LET data == SnapshotState(ev'.doc).members
             IN /\ ss'.los = Get(data, "los", <<>>)
                /\ ss'.questions = Get(data, "questions", EmptyMap)
                /\ ss'.module_sig = Get(data, "module_sig", EmptyStr)
       /\ (ev'.op = "navigate" /\ ev'.n = 1) => NothingInvalidated(ss, ss')]_vars

\* the objectives step is shown after the load of a snapshot with an aligned
\* and accepted objective that has questions
C18_Witness ==
    /\ ev.op = "navigate" /\ ev.n = 1 /\ ss.current_step = 3
    /\ ss.los # <<>>
    /\ Truthy(ss.los[1].alignment) /\ Truthy(ss.los[1].final_text)
    /\ Truthy(ss.los[1].generation_sig)
    /\ ss.los[1].id \in DOMAIN ss.questions

\* a malformed snapshot: the document is not an object, or it has no "state"
\* member, or its "state" member is not an object
Malformed(doc) == ~WellFormed(doc)

\* C19: the load of a malformed snapshot restores nothing: every domain key of
\* the session and current_step keep their values.
C19_MalformedLoadAborts ==
    [][(ev'.op = "load" /\ Malformed(ev'.doc)) =>
          /\ ~ev'.flag
          /\ ss'.current_step = ss.current_step
          /\ \A k \in DOMAIN_STATE_KEYS \cap DOMAIN ss : ss'[k] = ss[k]]_vars

\* C20: whenever the stored module token count exceeds MODULE_TOKEN_LIMIT,
\* step 3 is not ready and the step shown is the outline or the module step.
C20_TokenLimitBlocks ==
    ss.module_tokens > MODULE_TOKEN_LIMIT =>
        ~ss.is_ready_for_step[3] /\ ss.current_step < 3

\* the conditions on a list of questions: it is not empty and every question
\* has exactly four options with the ids A, B, C and D and a correct option id
\* among them
AcceptableQuestions(qs) ==
    /\ qs # <<>>
    /\ \A i \in 1..Len(qs) :
          /\ Len(qs[i].options) = Cardinality(OPTION_IDS)
          /\ {qs[i].options[k].id : k \in 1..Len(qs[i].options)} = OPTION_IDS
          /\ qs[i].correct_option_id \in OPTION_IDS

\* the payload holds a list of questions that meets the conditions
AcceptablePayload(obj) ==
    /\ "questions" \in DOMAIN obj
    /\ IsList(obj.questions)
    /\ AcceptableQuestions(obj.questions.items)

\* C21: a "Generate" cycle that calls the language model stores the questions
\* of the payload only if the payload holds a non-empty list of questions with
\* exactly the options A-D and a correct option id among them; for every
\* other payload the call raises and the cycle ends without any question set.
C21_QuestionsPayloadValidated ==
    [][(ev'.op = "generate" /\ ev'.q > 0) =>
          /\ ~ev'.flag =>
                /\ AcceptablePayload(ev'.doc)
                /\ \A i \in 1..Len(ss'.los) :
                      ss'.los[i].id \in DOMAIN ss'.questions =>
                          ss'.questions[ss'.los[i].id] = ev'.doc.questions.items
          /\ ~AcceptablePayload(ev'.doc) => (ev'.flag /\ ss'.questions = EmptyMap)]_vars

\* a payload with a valid and an invalid question was refused after an
\* earlier payload had been stored
C21_Witness ==
    /\ ev.op = "generate" /\ ev.flag /\ ev.q = 1
    /\ "questions" \in DOMAIN ev.doc /\ IsList(ev.doc.questions)
    /\ Len(ev.doc.questions.items) > 1
    /\ ss.questions = EmptyMap
    /\ Truthy(ss.los[1].generation_sig)

\* C22: every alignment result stored on an objective has a label among
\* consistent, ambiguous and inconsistent and a list of one to three reasons.
C22_AlignmentResultShape ==
    \A i \in 1..Len(ss.los) :
        Truthy(ss.los[i].alignment_sig) =>
            /\ ss.los[i].alignment.label \in ALIGNMENT_LABELS
            /\ IsList(ss.los[i].alignment.reasons)
            /\ Len(ss.los[i].alignment.reasons.items) \in 1..3

\* the fields of a question that the signature covers, the options by id
EditableContent(q) ==
    <<q.stem, q.correct_option_id, q.contentReference, q.cognitive_rationale,
      {<<q.options[k].id, q.options[k].text, q.options[k].option_rationale>> :
          k \in 1..Len(q.options)}>>

\* the logical content of a dictionary: for every objective id the editable
\* content of its questions in list order
LogicalContent(items) ==
    [k \in DOMAIN DictOf(items) |->
        [j \in 1..Len(DictOf(items)[k]) |-> EditableContent(DictOf(items)[k][j])]]

\* the dictionary with the two questions of the objective at position i swapped
SwapQuestions(items, i) ==
    [items EXCEPT ![i] = <<@[1], <<@[2][2], @[2][1]>> >>]

\* C23: the payload of sig_questions is the same for dictionaries with the
\* same logical content, whatever the insertion order of the objective ids and
\* the order of the options of a question, and it differs when two questions
\* of different content of one objective are swapped.
C23_QuestionsSignatureCanonical ==
    (ev.op = "sig_questions" /\ ev.doc \in OrderInputs) =>
        /\ \A other \in OrderInputs :
              LogicalContent(other) = LogicalContent(ev.doc) =>
                  questions_payload_of_items(other) = ev.payload
        /\ \A i \in 1..Len(ev.doc) :
              (Len(ev.doc[i][2]) = 2 /\
               EditableContent(ev.doc[i][2][1]) # EditableContent(ev.doc[i][2][2])) =>
                  questions_payload_of_items(SwapQuestions(ev.doc, i)) # ev.payload

\* the signature of a dictionary whose objective ids were inserted in
\* descending order and whose first objective has two different questions
C23_Witness ==
    /\ ev.op = "sig_questions" /\ Len(ev.doc) = 2
    /\ ev.doc[1][1] > ev.doc[2][1]
    /\ Len(ev.doc[1][2]) = 2
    /\ EditableContent(ev.doc[1][2][1]) # EditableContent(ev.doc[1][2][2])
    /\ ev.doc[2][2] = <<ReversedOptions(PlainQuestion(<<"x">>, <<"r">>, <<"g">>))>>

\* C24: two dictionaries that differ in an editable field of a question have
\* different payloads, also when the field values hold line breaks, '|', '#'
\* or ':'.
C24_QuestionsPayloadUnambiguous ==
    (ev.op = "sig_questions" /\ ev.doc \in FieldInputs) =>
        \A other \in FieldInputs :
            LogicalContent(other) # LogicalContent(ev.doc) =>
                questions_payload_of_items(other) # ev.payload

\* C25: two different triples of objective text, level and module signature
\* have different payloads in sig_alignment and in sig_question_gen, also when
\* the text holds the separator.
C25_AlignmentPayloadInjective ==
    ev.op = "sig_alignment" =>
        \A t \in SigTexts, l \in SixLevelsOrUnset, m \in ModuleSigs :
            <<t, l, m>> # ev.doc =>
                /\ alignment_payload(t, l, m) # ev.payload
                /\ question_gen_payload(t, l, m) # ev.payload_gen

\* the payload of a text that holds the separator followed by a level and the
\* separator followed by a digest
C25_Witness ==
    /\ ev.op = "sig_alignment"
    /\ ev.doc[1] = <<"a">> \o SEP \o Apply \o SEP \o sig_module(<<"c1">>)
    /\ ev.doc[2] = Apply
    /\ ev.doc[3] = sig_module(<<"c1">>)

\* the text sub occurs in the text s
Occurs(sub, s) ==
    \E k \in 1..(Len(s) - Len(sub) + 1) : SubSeq(s, k, k + Len(sub) - 1) = sub

\* C26: after an upload of module files the module text holds the text of
\* every file of the upload that can be extracted, also when another file of
\* the upload fails extraction.
C26_FailedFileDoesNotAbort ==
    [][(ev'.op = "upload_module" /\ ss'.module_uploader # <<>>) =>
          \A i \in 1..Len(ss'.module_uploader) :
              ss'.module_uploader[i].readable =>
                  Occurs(FilePart(ss'.module_uploader[i]), ss'.module_text)]_vars

\* C27: re-opening an objective and accepting it again in the next
\* interaction, text and level untouched in between, is a round trip: the
\* re-open leaves the generation signature and every question set as they
\* were, and the accept that follows restores the final text the objective had
\* before the re-open and again leaves the generation signature and every
\* question set as they were, so no question set is cleared.
C27_ReopenAcceptRoundTrip ==
    [][/\ ev'.op = "reopen" =>
             /\ LoById(ss', ev'.id).generation_sig = LoById(ss, ev'.id).generation_sig
             /\ LoById(ss', ev'.id).text = LoById(ss, ev'.id).text
             /\ LoById(ss', ev'.id).intended_level = LoById(ss, ev'.id).intended_level
             /\ ss'.questions = ss.questions
       /\ (ev.op = "reopen" /\ ev'.op = "accept" /\ ev'.id = ev.id) =>
             /\ LoById(ss', ev'.id).final_text = ev.old
             /\ LoById(ss', ev'.id).generation_sig = LoById(ss, ev'.id).generation_sig
             /\ ss'.questions = ss.questions]_vars

\* an objective with a question set and a generation signature was accepted
\* right after it was re-opened, and still has both
C27_Witness ==
    /\ ev.op = "accept"
    /\ ev.n = 1
    /\ ev.q = 1
    /\ ev.id \in DOMAIN ss.questions
    /\ ss.questions[ev.id] # <<>>
    /\ Truthy(LoById(ss, ev.id).generation_sig)
    /\ Truthy(LoById(ss, ev.id).final_text)

\* C28: whenever an objective is finalized and has a non-empty question set,
\* its generation signature is present and equals
\* sig_question_gen(final_text, intended_level, module_sig) computed from the
\* current values.
C28_GenerationSigCurrent ==
    \A i \in 1..Len(ss.los) :
        LET lo == ss.los[i]
        IN (/\ Truthy(lo.final_text)
            /\ lo.id \in DOMAIN ss.questions
            /\ ss.questions[lo.id] # <<>>) =>
               /\ Truthy(lo.generation_sig)
               /\ lo.generation_sig =
                      sig_question_gen(lo.final_text, lo.intended_level, ss.module_sig)

\* "Accept All" ran over an objective that had a question set and left it
\* finalized with that non-empty set and the signature of its current values
C28_Witness ==
    /\ ev.op = "accept_all"
    /\ \E i \in 1..Len(ss.los) :
          LET lo == ss.los[i]
          IN /\ Truthy(lo.final_text)
             /\ lo.id \in DOMAIN ss.questions
             /\ ss.questions[lo.id] # <<>>
             /\ lo.generation_sig =
                    sig_question_gen(lo.final_text, lo.intended_level, ss.module_sig)

\* an interaction that invalidated one objective through clear_questions with
\* its id: a delete, an edit whose cascade fired, or an accept that found a
\* differing generation signature
ObjectiveInvalidation(e) ==
    \/ e.op = "delete"
    \/ e.op = "edit" /\ e.flag
    \/ e.op = "accept" /\ e.flag

\* the question sets of the objectives other than id are the same in s and t
OtherQuestionSetsKept(s, t, id) ==
    \A b \in (DOMAIN s.questions) \ {id} :
        b \in DOMAIN t.questions /\ t.questions[b] = s.questions[b]

\* render_step_5: the values the check boxes are seeded with from include_opts,
\* a block that is absent counting as included
IncludeSeed(s) == [b \in INCLUDE_BLOCKS |-> Get(s.include_opts, b, TRUE)]

\* C29: an objective-level invalidation (edit cascade, accept with changed
\* content, or delete) leaves the inclusion options include_opts, read as
\* step 5 reads them, and the question sets of all other objectives unchanged.
C29_ObjectiveInvalidationFrame ==
    [][ObjectiveInvalidation(ev') =>
          /\ IncludeSeed(ss') = IncludeSeed(ss)
          /\ OtherQuestionSetsKept(ss, ss', ev'.id)]_vars

\* the part of C29 about the question sets of the other objectives
C29_OtherQuestionSetsKept ==
    [][ObjectiveInvalidation(ev') => OtherQuestionSetsKept(ss, ss', ev'.id)]_vars

\* the inclusion options are kept by every interaction of step 3 that is not an
\* objective-level invalidation
C29_OptionsKeptOtherwise ==
    [][(ss.current_step = 3 /\ ss'.current_step = 3 /\ ~ObjectiveInvalidation(ev')) =>
          IncludeSeed(ss') = IncludeSeed(ss)]_vars

\* the session an "Accept as final" cycle on the objective at position i ends
\* with when its handler is finalize_lo
AcceptWithFinalizeLo(s, i) == Pass(finalize_lo(Step3Upto(s, i), i))

PositionOf(s, id) == CHOOSE i \in 1..Len(s.los) : s.los[i].id = id

\* C30: finalize_lo and the inline "Accept as final" handler are equivalent:
\* from the same session, every accept cycle ends with the final text,
\* generation signature and question sets that finalize_lo would have left.
C30_FinalizeLoEquivalent ==
    [][ev'.op = "accept" =>
          LET i == PositionOf(ss, ev'.id)
              t == AcceptWithFinalizeLo(ss, i)
          IN /\ ss'.los[i].final_text = t.los[i].final_text
             /\ ss'.los[i].generation_sig = t.los[i].generation_sig
             /\ ss'.questions = t.questions]_vars

\* the part of C30 that leaves the generation signature out
C30_SameFinalTextAndQuestions ==
    [][ev'.op = "accept" =>
          LET i == PositionOf(ss, ev'.id)
              t == AcceptWithFinalizeLo(ss, i)
          IN /\ ss'.los[i].final_text = t.los[i].final_text
             /\ ss'.questions = t.questions]_vars

\* C31: whenever the final text of an objective is present it equals the
\* objective's current text.
C31_FinalTextIsText ==
    \A i \in 1..Len(ss.los) :
        Truthy(ss.los[i].final_text) => ss.los[i].final_text = ss.los[i].text

\* the second half of C31: the text and the level of an objective that is
\* finalized before and after an interaction are the same before and after
C31_FinalizedUnchanged ==
    [][\A id \in Ids(ss) \cap Ids(ss') :
          (Truthy(LoById(ss, id).final_text) /\ Truthy(LoById(ss', id).final_text)) =>
             /\ LoById(ss', id).text = LoById(ss, id).text
             /\ LoById(ss', id).intended_level = LoById(ss, id).intended_level]_vars

\* a finalized objective with an alignment result went through "Check All"
\* and is still finalized with its text
C31_Witness ==
    /\ ev.op = "check_all"
    /\ \E i \in 1..Len(ss.los) :
          /\ Truthy(ss.los[i].final_text)
          /\ ss.los[i].final_text = ss.los[i].text
          /\ ss.los[i].alignment # None

\* C32: if the generation signature of an objective is present then a question
\* set for that objective is present; in particular after a Generate run in
\* which the requested count of an objective is 0.
C32_SignatureImpliesQuestions ==
    \A i \in 1..Len(ss.los) :
        Truthy(ss.los[i].generation_sig) => ss.los[i].id \in DOMAIN ss.questions

\* the same without the Generate runs: the implication is kept by every
\* interaction that is not a Generate
C32_KeptByOtherInteractions ==
    [][(C32_SignatureImpliesQuestions /\ ev'.op # "generate") =>
          \A i \in 1..Len(ss'.los) :
              Truthy(ss'.los[i].generation_sig) => ss'.los[i].id \in DOMAIN ss'.questions]_vars

\* a Generate run without a failure has just left an objective whose requested
\* count is 0 with a generation signature and no question set
C32_ZeroCountLeavesSignature ==
    /\ ev.op = "generate"
    /\ ~ev.flag
    /\ \E i \in 1..Len(ss.los) :
          /\ RequestedCount(ss, ss.los[i].id) = 0
          /\ Truthy(ss.los[i].generation_sig)
          /\ ss.los[i].id \notin DOMAIN ss.questions

\* C33: no orphan question sets: every key of the question-set mapping is the
\* id of an objective in the objective list.
C33_NoOrphanQuestionSets == DOMAIN ss.questions \subseteq Ids(ss)

\* one of two objectives that both had a question set was deleted; the other
\* one keeps its set and is the only key left
C33_Witness ==
    /\ ev.op = "delete"
    /\ ev.q = 1
    /\ Len(ss.los) = 1
    /\ DOMAIN ss.questions = {ss.los[1].id}

\* C34: whenever the export step is reachable (is_ready_for_step[5]), every
\* objective that has a question set is finalized.
C34_ExportOnlyFinalized ==
    ss.is_ready_for_step[5] =>
        \A i \in 1..Len(ss.los) :
            ss.los[i].id \in DOMAIN ss.questions => Truthy(ss.los[i].final_text)

\* an export document has just been built from the question set of an objective
\* that is re-opened
C34_BuiltForReopened ==
    /\ ev.op = "build_docx"
    /\ Truthy(ss.docx_file)
    /\ \E i \in 1..Len(ss.los) :
          /\ ss.los[i].id \in DOMAIN ss.questions
          /\ ~Truthy(ss.los[i].final_text)

\* the export step is reachable exactly when the question-set mapping is not
\* empty, whatever the objectives are
C34_ReadinessIsQuestions ==
    ss.current_step # 1 => (ss.is_ready_for_step[5] <=> ss.questions # EmptyMap)

\* the generation signatures of all objectives are the same in s and t
SameGenerationSigs(s, t) ==
    /\ Len(t.los) = Len(s.los)
    /\ \A i \in 1..Len(s.los) : t.los[i].generation_sig = s.los[i].generation_sig

\* C35: Generate is all-or-nothing on failure: when question generation
\* raises for some objective during a Generate action, the question sets, the
\* generation signatures and questions_sig are the same as before the action.
C35_GenerateAllOrNothing ==
    [][(ev'.op = "generate" /\ ev'.flag) =>
          /\ ss'.questions = ss.questions
          /\ SameGenerationSigs(ss, ss')
          /\ ss'.questions_sig = ss.questions_sig]_vars

\* a Generate run whose second call raised has just left the first objective
\* with a question set and the second one without
C35_SubsetGenerated ==
    /\ ev.op = "generate"
    /\ ev.flag
    /\ Len(ss.los) = 2
    /\ DOMAIN ss.questions = {ss.los[1].id}

\* what a failed Generate does keep: the objectives' texts, levels, final
\* texts and alignment fields
C35_FailureKeepsObjectives ==
    [][(ev'.op = "generate" /\ ev'.flag) =>
          /\ Len(ss'.los) = Len(ss.los)
          /\ \A i \in 1..Len(ss.los) :
                ss'.los[i] = [ss.los[i] EXCEPT !.generation_sig = ss'.los[i].generation_sig]]_vars

\* the upload of an interaction was one whose text extraction raises
ExtractionRaised(e, s) ==
    /\ e.op = "upload_module"
    /\ s.module_uploader # <<>>
    /\ extract_text_and_tokens(s.module_uploader).raised

\* C36: if text extraction raises during a module upload, the stored module
\* text, token count and module signature and all objectives and question
\* sets are unchanged by that interaction.
C36_FailedExtractionKeepsState ==
    [][ExtractionRaised(ev', ss') =>
          /\ ss'.module_text = ss.module_text
          /\ ss'.module_tokens = ss.module_tokens
          /\ ss'.module_sig = ss.module_sig
          /\ ss'.los = ss.los
          /\ ss'.questions = ss.questions]_vars

\* an upload whose extraction raised has just removed objectives and question
\* sets and emptied the module text
C36_FailedUploadClears ==
    /\ ExtractionRaised(ev, ss)
    /\ ev.n > 0
    /\ ev.q > 0
    /\ ss.los = <<>>
    /\ ss.questions = EmptyMap
    /\ ss.module_text = EmptyStr

\* the objective at position i of s has a question set and the generation
\* signature of its current final text, level and module signature
QuestionsCurrent(s, i) ==
    /\ s.los[i].id \in DOMAIN s.questions
    /\ s.los[i].generation_sig =
           sig_question_gen(s.los[i].final_text, s.los[i].intended_level, s.module_sig)

\* C37: Generate replaces question sets only where needed: an objective whose
\* question set is present and whose generation signature is current keeps
\* its existing question set when a Generate without failure runs while
\* another objective has no current question set.
C37_GenerateKeepsCurrentSets ==
    [][(ev'.op = "generate" /\ ~ev'.flag) =>
          \A i \in 1..Len(ss.los) :
              (/\ QuestionsCurrent(ss, i)
               /\ \E j \in 1..Len(ss.los) : j # i /\ ~QuestionsCurrent(ss, j)) =>
                 /\ ss.los[i].id \in DOMAIN ss'.questions
                 /\ ss'.questions[ss.los[i].id] = ss.questions[ss.los[i].id]]_vars

\* the same for objectives whose requested count is not 0
C37_RequestedSetsKept ==
    [][(ev'.op = "generate" /\ ~ev'.flag) =>
          \A i \in 1..Len(ss.los) :
              (/\ QuestionsCurrent(ss, i)
               /\ RequestedCount(ss', ss.los[i].id) # 0
               /\ \E j \in 1..Len(ss.los) : j # i /\ ~QuestionsCurrent(ss, j)) =>
                 /\ ss.los[i].id \in DOMAIN ss'.questions
                 /\ ss'.questions[ss.los[i].id] = ss.questions[ss.los[i].id]]_vars

\* C38: after "Import source files from Outline step" the stored module text
\* equals the course text, also when the module uploader already holds files,
\* and an interaction that changes neither upload keeps them equal.
C38_ImportSticks ==
    [][/\ ev'.op = "import_module" => ss'.module_text = ss'.course_text
       /\ (/\ Truthy(ss.course_text)
           /\ ss.module_text = ss.course_text
           /\ ev'.op \notin {"upload_module", "upload_course"}) =>
              ss'.module_text = ss'.course_text]_vars

\* the same for imports made while the module uploader is empty
C38_ImportWithEmptyUploader ==
    [][/\ (ev'.op = "import_module" /\ ss.module_uploader = <<>>) =>
              ss'.module_text = ss'.course_text
       /\ (/\ Truthy(ss.course_text)
           /\ ss.module_text = ss.course_text
           /\ ev'.op \notin {"upload_module", "upload_course"}) =>
              ss'.module_text = ss'.course_text]_vars

\* an import has just ended with the module text of the file in the uploader
\* and not the course text
C38_ImportOverwritten ==
    /\ ev.op = "import_module"
    /\ ss.module_uploader # <<>>
    /\ ss.module_text # ss.course_text
    /\ ss.module_text = extract_text_and_tokens(ss.module_uploader).text

\* the text a paragraph of the block of an inclusion option starts with
BlockPrefix(b) ==
    CASE b = "lo" -> "Learning Objective: "
      [] b = "bloom" -> "Bloom level: "
      [] b = "answer" -> "Answer: "
      [] b = "feedback" -> "Feedback:"
      [] b = "content" -> "Content reference: "
      [] OTHER -> "Rationale for Bloom level: "

\* the document has a paragraph of the block of option b
HasBlock(doc, b) ==
    \E p \in 1..Len(doc) : doc[p] # <<>> /\ doc[p][1] = BlockPrefix(b)

\* the document just built has the block of option b exactly when the option
\* stored by step 5 is on
OptionControlsBlock(b) ==
    ev.op = "build_docx" => (HasBlock(ss.docx_file, b) <=> ss.include_opts[b])

\* C39: each inclusion option chosen in the export step controls its block in
\* the built document: the document built with the options stored by step 5
\* has the learning-objective heading, and each of the other five blocks,
\* exactly when its option is on.
C39_OptionsControlBlocks == \A b \in INCLUDE_BLOCKS : OptionControlsBlock(b)

\* the same for the five options other than "Learning objectives"
C39_OtherOptionsControlBlocks == \A b \in INCLUDE_BLOCKS \ {"lo"} : OptionControlsBlock(b)

\* a document has just been built with "Learning objectives" off and holds the
\* learning-objective heading
C39_HeadingDespiteOff ==
    /\ ev.op = "build_docx"
    /\ ~ss.include_opts["lo"]
    /\ HasBlock(ss.docx_file, "lo")

====
